---- MODULE Spec2Model ----
(***************************************************************************)
(* Search-terminology resolution and gap-detection loop of the marketing   *)
(* content portal: the terminology store (terminology_map), the resolver   *)
(* (scripts/diagnose_search.py) and the popularity and gap analyzer        *)
(* (scripts/query_popularity_report.py, scripts/log_analyzer.py).          *)
(*                                                                         *)
(* Text is modelled as a sequence of one-character strings, so that        *)
(* lower(), strip(), split(), re.findall and the substring test `in` are   *)
(* computed character by character as Python computes them.                *)
(***************************************************************************)
EXTENDS Bags, Integers, Sequences, FiniteSets, TLC

VARIABLES
    terminology_map,     \* the rows of table terminology_map
    last_insert,         \* what the last store write returned / left behind
    terminology_trace,   \* result of step_trace_terminology, or NoResult
    auto_fix,            \* result of step_auto_fix, or NoResult
    logs,                \* fetched rows of ai_prompt_logs (a sequence)
    popularity_ranking,  \* result of generate_popularity_ranking
    content_gaps,        \* result of generate_content_gap_analysis
    unmapped_terms,      \* result of generate_terminology_suggestions, part A
    pc,                  \* where the running job is
    query_clusters,      \* result of generate_topic_clusters, or NoResult
    competitor_intelligence, \* result of generate_competitor_intelligence
    metrics,             \* the metrics of the analyzer's report, or NoResult
    orch,                \* the maintenance orchestrator's run
    health_pre,          \* the file /tmp/health_pre.json
    health_report,       \* the report of the last health monitor run
    all_results,         \* what diagnose_query has gathered, or NoResult
    enrich,              \* the run of the parallel enrichment, or NoRun
    marketing_content,   \* the catalogue, as the resolver's query sees it
    completion_service,  \* what the completion service does in an analyzer run
    ai_report,           \* the report's sections that use the service
    health_post          \* the file /tmp/health_post.json

\* the sections 3 and 6 of the analyzer's report and its metrics
sectionVars == <<query_clusters, competitor_intelligence, metrics>>

\* the maintenance run and the health report it reads
maintenanceVars == <<orch, health_pre, health_report>>

\* the enrichment run, the catalogue and the analyzer's use of the
\* completion service
sideVars == <<enrich, marketing_content, completion_service, ai_report,
              health_post>>

\* the resolver's results, the enrichment run and the catalogue
toolVars == <<all_results, sideVars>>

vars == <<terminology_map, last_insert, terminology_trace, auto_fix, logs,
          popularity_ranking, content_gaps, unmapped_terms, pc,
          sectionVars, maintenanceVars, toolVars>>

-----------------------------------------------------------------------------
(* Text primitives (Python str / re semantics).                            *)

UpperLetters == <<"A","B","C","D","E","F","G","H","I","J","K","L","M",
                  "N","O","P","Q","R","S","T","U","V","W","X","Y","Z">>

LowerLetters == <<"a","b","c","d","e","f","g","h","i","j","k","l","m",
                  "n","o","p","q","r","s","t","u","v","w","x","y","z">>

Digits == {"0","1","2","3","4","5","6","7","8","9"}

Range(f) == {f[i] : i \in DOMAIN f}

\* str.lower() on the upper-case letters
LowerTable ==
    [c \in Range(UpperLetters) |->
        LowerLetters[CHOOSE i \in DOMAIN UpperLetters : UpperLetters[i] = c]]

\* str.lower() on one character
LowerChar(c) == IF c \in DOMAIN LowerTable THEN LowerTable[c] ELSE c

\* str.lower()
Lower(s) == [i \in DOMAIN s |-> LowerChar(s[i])]

\* str.isspace() on one character
IsSpace(c) == c \in {" ", "\t", "\n"}

\* the characters of the regex class \w
WordChars == Range(UpperLetters) \cup Range(LowerLetters) \cup Digits \cup {"_"}

\* the regex class \w
IsWordChar(c) == c \in WordChars

\* str.strip()
Strip(s) ==
    LET keep == {i \in DOMAIN s : ~IsSpace(s[i])}
    IN  IF keep = {} THEN <<>>
        ELSE LET lo == CHOOSE i \in keep : \A j \in keep : i <= j
                 hi == CHOOSE i \in keep : \A j \in keep : j <= i
             IN  SubSeq(s, lo, hi)

\* the maximal runs of characters satisfying a class, left to right
RECURSIVE RunsFrom(_, _, _, _)
RunsFrom(s, i, cur, wordclass) ==
    IF i > Len(s)
    THEN IF cur = <<>> THEN <<>> ELSE <<cur>>
    ELSE LET inrun == IF wordclass THEN IsWordChar(s[i]) ELSE ~IsSpace(s[i])
         IN  IF inrun
             THEN RunsFrom(s, i + 1, Append(cur, s[i]), wordclass)
             ELSE IF cur = <<>>
                  THEN RunsFrom(s, i + 1, <<>>, wordclass)
                  ELSE <<cur>> \o RunsFrom(s, i + 1, <<>>, wordclass)

\* str.split() with no argument: split on runs of whitespace, no empty parts
Split(s) == RunsFrom(s, 1, <<>>, FALSE)

\* re.findall(r'\b\w+\b', s): the maximal runs of word characters
FindallWords(s) == RunsFrom(s, 1, <<>>, TRUE)

\* F applied to the value of v: v is evaluated once, whatever F does with it
WithValue(v, F(_)) == CHOOSE r \in {F(x) : x \in {v}} : TRUE

\* Python's `sub in s` for strings (the empty string is in every string)
Contains(sub, s) ==
    WithValue(<<sub, s>>, LAMBDA a :
        \/ a[1] = <<>>
        \/ \E i \in 1..(Len(a[2]) - Len(a[1]) + 1) :
               /\ a[2][i] = a[1][1]
               /\ SubSeq(a[2], i, i + Len(a[1]) - 1) = a[1])

\* ' '.join(parts)
RECURSIVE JoinSpace(_)
JoinSpace(parts) ==
    IF parts = <<>> THEN <<>>
    ELSE IF Len(parts) = 1 THEN parts[1]
    ELSE parts[1] \o <<" ">> \o JoinSpace(Tail(parts))

\* [x for x in seq if keep(x)], from position i on
RECURSIVE SelectFrom(_, _, _)
SelectFrom(seq, keepset, i) ==
    IF i > Len(seq) THEN <<>>
    ELSE IF i \in keepset THEN <<seq[i]>> \o SelectFrom(seq, keepset, i + 1)
    ELSE SelectFrom(seq, keepset, i + 1)

SelectIdx(seq, keepset, i) ==
    WithValue(<<seq, keepset>>, LAMBDA a : SelectFrom(a[1], a[2], i))

\* Python round(num/den, digits) for num >= 0, den > 0, given as the integer
\* round(num * scale / den) with scale = 10^digits: nearest, ties to even
RoundDiv(num, den) ==
    LET q == num \div den
        r == num % den
    IN  IF 2 * r < den THEN q
        ELSE IF 2 * r > den THEN q + 1
        ELSE IF q % 2 = 0 THEN q ELSE q + 1

-----------------------------------------------------------------------------
(* Text constants used as inputs.                                          *)

T_one_pager == <<"o","n","e"," ","p","a","g","e","r">>
T_pager == <<"p","a","g","e","r">>
T_1_Pager == <<"1","-","P","a","g","e","r">>
T_fafsa == <<"f","a","f","s","a">>
T_FAFSA == <<"F","A","F","S","A">>
T_One_Pager == <<"O","n","e"," ","P","a","g","e","r">>
T_Brochure == <<"B","r","o","c","h","u","r","e">>
T_checklist == <<"c","h","e","c","k","l","i","s","t">>
T_Ebook == <<"E","b","o","o","k">>
T_empty == <<>>

\* SQL NULL / Python None in a text position, and a key absent from a dict
NullText == <<"<null>">>
AbsentText == <<"<absent>">>

NoResult == [status |-> "none"]

\* no maintenance run yet; no file
NoRun == [phase |-> "idle"]
NoFile == [status |-> "absent"]
NoContent == [ranked |-> <<>>, matching |-> {}]
NoService == [client |-> "no_key"]

-----------------------------------------------------------------------------
(* Table terminology_map and the INSERT statements issued against it.      *)

MapTypes == {"content_type", "state", "topic", "competitor", "persona", "feature"}

Sources == {"manual", "ai_suggested", "log_analysis", "seed"}

Columns == {"map_type", "user_term", "canonical_term", "confidence", "source",
            "usage_count", "last_used_at", "is_active", "is_verified"}

\* column defaults of CREATE TABLE terminology_map (confidence in hundredths);
\* a column with no DEFAULT clause defaults to NULL
ColumnDefault ==
    [map_type |-> "<null>", user_term |-> NullText, canonical_term |-> NullText,
     confidence |-> 100, source |-> "manual", usage_count |-> 0,
     last_used_at |-> "<null>", is_active |-> TRUE, is_verified |-> FALSE]

\* the UNIQUE constraints on user columns (the primary key is the generated id)
UniqueConstraints == {{"map_type", "user_term"}}

\* the row an INSERT naming the columns DOMAIN vals builds
RowOf(vals) ==
    [c \in Columns |-> IF c \in DOMAIN vals THEN vals[c] ELSE ColumnDefault[c]]

\* NOT NULL and CHECK constraints of the table
ViolatesConstraints(row) ==
    \/ row.map_type \notin MapTypes
    \/ row.user_term = NullText
    \/ row.canonical_term = NullText
    \/ row.confidence < 0 \/ row.confidence > 100
    \/ row.source \notin Sources

SameKey(r1, r2) == r1.map_type = r2.map_type /\ r1.user_term = r2.user_term

\* an upsert that overwrites: ON CONFLICT (target) DO UPDATE SET ...
OnConflictDoUpdate(table, row) ==
    {r \in table : ~SameKey(r, row)} \cup {row}

\* what ON CONFLICT (target) DO NOTHING does with a row whose key exists
OnConflict(table, row) == table

\* INSERT ... VALUES (vals) ON CONFLICT (target) DO NOTHING RETURNING id:
\* the arbiter must be a unique constraint; the row's constraints are checked
\* before the conflict test
PgInsert(table, vals, target) ==
    LET row == RowOf(vals)
    IN  IF target \notin UniqueConstraints \/ ViolatesConstraints(row)
        THEN [status |-> "error", table |-> table]
        ELSE IF \E r \in table : SameKey(r, row)
        THEN [status |-> "conflict", table |-> OnConflict(table, row)]
        ELSE [status |-> "inserted", table |-> table \cup {row}]

\* an excerpt of the seed rows (map_type, user_term, canonical_term)
SeedValues ==
    << <<"content_type", T_one_pager, T_1_Pager>>,
       <<"content_type", T_pager, T_1_Pager>>,
       <<"topic", T_fafsa, T_FAFSA>> >>

\* the column list of every seed INSERT
SeedVals(v) ==
    [map_type |-> v[1], user_term |-> v[2], canonical_term |-> v[3],
     source |-> "seed", is_verified |-> TRUE, is_active |-> TRUE]

\* seed_sql: multi-row INSERT ... ON CONFLICT (map_type, user_term) DO NOTHING
RECURSIVE seed_sql(_, _)
seed_sql(table, i) ==
    IF i > Len(SeedValues) THEN table
    ELSE seed_sql(PgInsert(table, SeedVals(SeedValues[i]),
                           {"map_type", "user_term"}).table, i + 1)

\* a suggestion INSERT that leaves the status flags to the column defaults
SuggestionValsDefaultFlags(s) ==
    [map_type |-> IF s.map_type = "<absent>" THEN "content_type" ELSE s.map_type,
     user_term |-> IF s.user_term = AbsentText THEN T_empty ELSE Lower(s.user_term),
     canonical_term |-> IF s.canonical_term = AbsentText THEN T_empty
                        ELSE s.canonical_term,
     source |-> "log_analysis",
     confidence |-> s.confidence]

\* the VALUES of the analyzers' suggestion INSERT
SuggestionVals(s) ==
    [map_type |-> IF s.map_type = "<absent>" THEN "content_type" ELSE s.map_type,
     user_term |-> IF s.user_term = AbsentText THEN T_empty ELSE Lower(s.user_term),
     canonical_term |-> IF s.canonical_term = AbsentText THEN T_empty
                        ELSE s.canonical_term,
     source |-> "log_analysis",
     confidence |-> s.confidence,
     is_verified |-> FALSE,
     is_active |-> FALSE]

\* the loop of insert_terminology_suggestions: one transaction, each INSERT in
\* a try/except that does not roll back; after a statement error every later
\* statement of the transaction fails, and commit() then rolls back
RECURSIVE InsertLoop(_, _, _, _, _)
InsertLoop(suggestions, i, pending, aborted, inserted) ==
    IF i > Len(suggestions)
    THEN [pending |-> pending, aborted |-> aborted, inserted |-> inserted]
    ELSE LET s == suggestions[i]
         IN  IF s.user_term = NullText
             THEN \* None.lower() raises before the statement is sent
                  InsertLoop(suggestions, i + 1, pending, aborted, inserted)
             ELSE IF aborted
             THEN InsertLoop(suggestions, i + 1, pending, aborted, inserted)
             ELSE LET res == PgInsert(pending, SuggestionVals(s),
                                      {"map_type", "user_term"})
                  IN  InsertLoop(suggestions, i + 1, res.table,
                                 res.status = "error",
                                 IF res.status = "inserted"
                                 THEN inserted + 1 ELSE inserted)

\* insert_terminology_suggestions(conn, suggestions, dry_run):
\* the table after the call and the value returned
insert_terminology_suggestions(table, suggestions, dry_run) ==
    IF suggestions = <<>> \/ dry_run
    THEN [table |-> table, returned |-> 0]
    ELSE LET r == InsertLoop(suggestions, 1, table, FALSE, 0)
         IN  [table |-> IF r.aborted THEN table ELSE r.pending,
              returned |-> r.inserted]

\* a save that does not look at --dry-run
SaveAlways(dry_run) == 1

\* save_report_to_db: the rows it adds to log_analysis_reports: none under
\* --dry-run, one otherwise (the INSERT is taken to succeed)
save_report_to_db(dry_run) == IF dry_run THEN 0 ELSE 1

\* the function's UPDATE without its test of is_active
IncrementAnyRow(table, p_user_term, p_map_type) ==
    {IF Lower(r.user_term) = Lower(p_user_term) /\ r.map_type = p_map_type
     THEN [r EXCEPT !.usage_count = @ + 1, !.last_used_at = "NOW()"]
     ELSE r : r \in table}

\* increment_terminology_usage(p_user_term, p_map_type)
increment_terminology_usage(table, p_user_term, p_map_type) ==
    {IF Lower(r.user_term) = Lower(p_user_term) /\ r.map_type = p_map_type
        /\ r.is_active
     THEN [r EXCEPT !.usage_count = @ + 1, !.last_used_at = "NOW()"]
     ELSE r : r \in table}

-----------------------------------------------------------------------------
(* The resolver (diagnose_search.py).                                      *)

Q_scenarioB == <<"n","e","e","d"," ","a"," ","o","n","e"," ","p","a","g","e","r"," ","o","n"," ","f","a","f","s","a">>
Q_Pager == <<"P","a","g","e","r">>
Q_short == <<"a"," ","b">>

Max(a, b) == IF a >= b THEN a ELSE b
Min(a, b) == IF a <= b THEN a ELSE b

\* step_execute_query, the tokenization:
\* [t.lower() for t in re.findall(r'\b\w+\b', query) if len(t) > 2]
Tokenize(query) ==
    LET found == FindallWords(query)
    IN  SelectIdx([i \in DOMAIN found |-> Lower(found[i])],
                  {i \in DOMAIN found : Len(found[i]) > 2}, 1)

\* the rows step_trace_terminology selects from terminology_map
AllMappings(table) == table

\* (mapping[col] or '').lower()
LowerOrEmpty(text) == IF text = NullText THEN T_empty ELSE Lower(text)

\* the condition under which a token matches a mapping
TokenMatches(token, mapping) ==
    LET user_term == LowerOrEmpty(mapping.user_term)
        canonical_term == LowerOrEmpty(mapping.canonical_term)
    IN  \/ token = user_term
        \/ Contains(token, user_term)
        \/ Contains(user_term, token)
        \/ token = canonical_term

\* the tokens a matching mapping removes from unmatched_tokens: the inner
\* loop records the first matching token and breaks
DiscardedBy(mapping, tokens) ==
    LET hits == {i \in DOMAIN tokens : TokenMatches(tokens[i], mapping)}
    IN  IF hits = {} THEN {}
        ELSE {tokens[CHOOSE i \in hits : \A j \in hits : i <= j]}

\* the value reported as mapping_coverage, in tenths of a percent:
\* round(len(matched_mappings) / max(len(tokens), 1) * 100, 1)
MappingCoverage(matched_mappings, tokens) ==
    RoundDiv(Cardinality(matched_mappings) * 1000, Max(Len(tokens), 1))

\* step_trace_terminology(conn, query, tokens). matched_mappings is kept as a
\* set of entries (the order is that of ORDER BY usage_count, which no claim
\* reads); map_type tells apart rows that agree on the selected columns
step_trace_terminology(table, query, tokens) ==
    LET all_mappings == AllMappings(table)
        matching == {m \in all_mappings : DiscardedBy(m, tokens) # {}}
        matched_mappings ==
            {[map_type |-> m.map_type,
              user_term |-> m.user_term,
              canonical_term |-> m.canonical_term,
              matched_token |-> CHOOSE t \in DiscardedBy(m, tokens) : TRUE,
              usage_count |-> m.usage_count] : m \in matching}
    IN  [status |-> "traced",
         query |-> query,
         tokens |-> tokens,
         total_mappings_available |-> Cardinality(all_mappings),
         matched_mappings |-> matched_mappings,
         unmatched_tokens |->
             Range(tokens) \ UNION {DiscardedBy(m, tokens) : m \in all_mappings},
         mapping_coverage |-> MappingCoverage(matched_mappings, tokens)]

\* `not text` for a text taken with dict.get: missing, None or ''
Falsy(text) == text \in {AbsentText, NullText, T_empty}

\* the VALUES of the auto-fix INSERT
AutoFixVals(user_term, standard_term) ==
    [user_term |-> user_term, canonical_term |-> standard_term,
     source |-> "auto_diagnose", usage_count |-> 0]

\* the loop of step_auto_fix over diagnosis['recommended_fixes']; each
\* successful INSERT is committed on its own, a failed one is caught without
\* a rollback, which leaves the connection's transaction aborted
RECURSIVE AutoFixLoop(_, _, _, _, _, _, _)
AutoFixLoop(fixes, i, table, aborted, dry_run, applied, skipped) ==
    IF i > Len(fixes)
    THEN [table |-> table, aborted |-> aborted,
          fixes_applied |-> applied, fixes_skipped |-> skipped]
    ELSE LET fix == fixes[i]
         IN  IF fix.fix_type # "add_terminology"
             THEN AutoFixLoop(fixes, i + 1, table, aborted, dry_run, applied,
                      Append(skipped, [fix |-> fix, reason |-> "not supported"]))
             ELSE IF Falsy(fix.user_term) \/ Falsy(fix.standard_term)
             THEN AutoFixLoop(fixes, i + 1, table, aborted, dry_run, applied,
                      Append(skipped, [fix |-> fix, reason |-> "missing term"]))
             ELSE IF dry_run
             THEN AutoFixLoop(fixes, i + 1, table, aborted, dry_run,
                      Append(applied, [user_term |-> fix.user_term,
                                       canonical_term |-> fix.standard_term,
                                       how |-> "dry_run"]),
                      skipped)
             ELSE LET res == IF aborted
                             THEN [status |-> "error", table |-> table]
                             ELSE PgInsert(table,
                                      AutoFixVals(fix.user_term, fix.standard_term),
                                      {"user_term"})
                  IN  IF res.status = "error"
                      THEN AutoFixLoop(fixes, i + 1, table, TRUE, dry_run, applied,
                               Append(skipped, [fix |-> fix, reason |-> "exception"]))
                      ELSE AutoFixLoop(fixes, i + 1, res.table, FALSE, dry_run,
                               Append(applied, [user_term |-> fix.user_term,
                                                canonical_term |-> fix.standard_term,
                                                how |-> "applied"]),
                               skipped)

\* step_ai_diagnosis(query, all_results): the diagnosis for what the
\* completion service did
step_ai_diagnosis(reply) ==
    CASE reply.kind = "no_key" ->
             [status |-> "skipped", reason |-> "OPENAI_API_KEY not set"]
      [] reply.kind = "raises" -> [error |-> "APIError"]
      [] reply.kind = "no_json" ->
             [error |-> "Could not parse JSON from AI response"]
      [] reply.kind = "bad_json" -> [error |-> "JSONDecodeError"]
      [] reply.kind = "json" -> reply.value

\* step_auto_fix(conn, diagnosis, dry_run): its result and the table after it
step_auto_fix(table, diagnosis, dry_run) ==
    IF "recommended_fixes" \notin DOMAIN diagnosis
    THEN [table |-> table,
          result |-> [status |-> "skipped", reason |-> "No fixes to apply"]]
    ELSE LET r == AutoFixLoop(diagnosis.recommended_fixes, 1, table, FALSE,
                              dry_run, <<>>, <<>>)
         IN  [table |-> r.table,
              result |-> [status |-> IF r.fixes_applied # <<>> THEN "applied"
                                     ELSE "none_applicable",
                          fixes_applied |-> r.fixes_applied,
                          fixes_skipped |-> r.fixes_skipped,
                          total_applied |-> Len(r.fixes_applied)]]

-----------------------------------------------------------------------------
(* Specification Spec: the terminology store and the resolver.             *)

MaxBatch == 2
MaxFixes == 2
MaxUsage == 1

\* sequences over S of length lo..hi
SeqsUpTo(S, lo, hi) == UNION {[1..n -> S] : n \in lo..hi}

\* suggestions as the completion service may return them
SuggestionPool ==
    {[map_type |-> "content_type", user_term |-> T_One_Pager,
      canonical_term |-> T_Brochure, confidence |-> 80],
     [map_type |-> "<absent>", user_term |-> T_checklist,
      canonical_term |-> T_1_Pager, confidence |-> 50],
     [map_type |-> "content_type", user_term |-> T_checklist,
      canonical_term |-> T_Ebook, confidence |-> 50],
     [map_type |-> "acronym", user_term |-> T_fafsa,
      canonical_term |-> T_FAFSA, confidence |-> 90],
     [map_type |-> "topic", user_term |-> NullText,
      canonical_term |-> T_FAFSA, confidence |-> 90]}

\* recommended fixes as the completion service may return them
FixPool ==
    {[fix_type |-> "add_terminology", user_term |-> T_checklist,
      standard_term |-> T_1_Pager],
     [fix_type |-> "add_terminology", user_term |-> T_checklist,
      standard_term |-> AbsentText],
     [fix_type |-> "improve_keywords", user_term |-> AbsentText,
      standard_term |-> AbsentText]}

\* what the completion service does in step 5: there is no key, the call
\* raises, the reply holds no {...}, the {...} of the reply is not JSON, or
\* it is a JSON object
LlmFailures ==
    {[kind |-> "no_key"], [kind |-> "raises"], [kind |-> "no_json"],
     [kind |-> "bad_json"]}

LlmReplies ==
    LlmFailures
        \cup {[kind |-> "json", value |-> [recommended_fixes |-> f]] :
                  f \in SeqsUpTo(FixPool, 0, MaxFixes)}
        \cup {[kind |-> "json", value |-> [explanation |-> "ranking"]]}

\* what step_ai_diagnosis may return
Diagnoses == {step_ai_diagnosis(reply) : reply \in LlmReplies}

ResolverQueries == {Q_scenarioB, Q_Pager, Q_short}

UsageCalls == {<<T_One_Pager, "content_type">>, <<T_checklist, "content_type">>}

AnalyzerIdle ==
    /\ logs = <<>>
    /\ popularity_ranking = <<>>
    /\ content_gaps = <<>>
    /\ unmapped_terms = <<>>
    /\ pc = "idle"
    /\ query_clusters = NoResult
    /\ competitor_intelligence = NoResult
    /\ metrics = NoResult
    /\ orch = NoRun
    /\ health_pre = NoFile
    /\ health_report = NoResult
    /\ all_results = NoResult
    /\ enrich = NoRun
    /\ marketing_content = NoContent
    /\ completion_service = NoService
    /\ ai_report = NoResult
    /\ health_post = NoFile

\* the table as CREATE TABLE leaves it, no job run yet
Init ==
    /\ terminology_map = {}
    /\ last_insert = [op |-> "none", returned |-> 0]
    /\ terminology_trace = NoResult
    /\ auto_fix = NoResult
    /\ AnalyzerIdle

\* run_terminology_migration.py, migration 2. Every job is a process of its
\* own: the result objects of the job before it are gone when it starts
SeedLoad ==
    /\ terminology_trace = NoResult
    /\ terminology_map' = seed_sql(terminology_map, 1)
    /\ last_insert' = [op |-> "seed", returned |-> 0]
    /\ terminology_trace' = NoResult
    /\ auto_fix' = NoResult
    /\ all_results' = NoResult
    /\ UNCHANGED <<sideVars, sectionVars, maintenanceVars,
                   logs, popularity_ranking, content_gaps, unmapped_terms, pc>>

\* query_popularity_report.py main, its end, for one list of suggestions and
\* one setting of --dry-run: save_report_to_db and
\* insert_terminology_suggestions unless --dry-run
AnalyzerEnd(batch, dry_run) ==
    LET r == insert_terminology_suggestions(terminology_map, batch, dry_run)
    IN  /\ terminology_trace = NoResult
        /\ terminology_map' = r.table
        /\ last_insert' = [op |-> "analyzer",
                           returned |-> r.returned,
                           dry_run |-> dry_run,
                           reports |-> save_report_to_db(dry_run)]
        /\ terminology_trace' = NoResult
        /\ auto_fix' = NoResult
        /\ all_results' = NoResult
        /\ UNCHANGED <<sideVars, sectionVars, maintenanceVars,
                       logs, popularity_ranking, content_gaps,
                       unmapped_terms, pc>>

AnalyzerInsert ==
    \E batch \in SeqsUpTo(SuggestionPool, 0, MaxBatch), dry_run \in BOOLEAN :
        AnalyzerEnd(batch, dry_run)

\* log_analyzer.py: insert_terminology_suggestions (the same code)
LogAnalyzerInsert ==
    \E batch \in SeqsUpTo(SuggestionPool, 0, MaxBatch), dry_run \in BOOLEAN :
        LET r == insert_terminology_suggestions(terminology_map, batch, dry_run)
        IN  /\ terminology_trace = NoResult
            /\ terminology_map' = r.table
            /\ last_insert' = [op |-> "log_analyzer", returned |-> r.returned]
            /\ terminology_trace' = NoResult
            /\ auto_fix' = NoResult
            /\ all_results' = NoResult
            /\ UNCHANGED <<sideVars, sectionVars, maintenanceVars,
                           logs, popularity_ranking, content_gaps,
                           unmapped_terms, pc>>

\* a call of the SQL function increment_terminology_usage (by any client)
IncrementUsage ==
    \E call \in UsageCalls :
        /\ \A r \in terminology_map : r.usage_count < MaxUsage
        /\ terminology_map' =
               increment_terminology_usage(terminology_map, call[1], call[2])
        /\ UNCHANGED <<toolVars, sectionVars, maintenanceVars,
                       last_insert, terminology_trace, auto_fix, logs,
                       popularity_ranking, content_gaps, unmapped_terms, pc>>

\* diagnose_query, steps 1 and 2: a new resolver run
TraceTerminology ==
    \E query \in ResolverQueries :
        /\ terminology_trace = NoResult
        /\ terminology_trace' =
               step_trace_terminology(terminology_map, query, Tokenize(query))
        /\ auto_fix' = NoResult
        /\ all_results' = NoResult
        /\ last_insert' = [op |-> "none", returned |-> 0]
        /\ UNCHANGED <<sideVars, sectionVars, maintenanceVars,
                       terminology_map, logs, popularity_ranking, content_gaps,
                       unmapped_terms, pc>>

\* diagnose_query raised: nothing is returned to main
Raised(error) == [status |-> "raised", error |-> error]

\* diagnose_query, steps 5 and 6, in the run that traced the query: the
\* diagnosis, then step_auto_fix and the line that prints af['total_applied']
\* with --auto-fix, the fixed entry without it
DiagnoseEnd(reply, with_auto_fix, dry_run) ==
    \E diagnosis \in {step_ai_diagnosis(reply)} :
        \E r \in {step_auto_fix(terminology_map, diagnosis, dry_run)} :
            /\ terminology_trace # NoResult
            /\ auto_fix = NoResult
            /\ all_results = NoResult
            /\ IF with_auto_fix
               THEN /\ terminology_map' = r.table
                    /\ auto_fix' = r.result
                    /\ last_insert' =
                           [op |-> "auto_fix",
                            returned |-> IF "total_applied" \in DOMAIN r.result
                                         THEN r.result.total_applied ELSE 0,
                            dry_run |-> dry_run]
                    /\ all_results' =
                           IF "total_applied" \in DOMAIN r.result
                           THEN [status |-> "returned",
                                 diagnosis |-> diagnosis,
                                 auto_fix |-> r.result]
                           ELSE Raised("KeyError: 'total_applied'")
               ELSE /\ UNCHANGED <<terminology_map, auto_fix, last_insert>>
                    /\ all_results' =
                           [status |-> "returned",
                            diagnosis |-> diagnosis,
                            auto_fix |->
                                [status |-> "skipped",
                                 reason |-> "--auto-fix not specified"]]
            /\ UNCHANGED <<sideVars, sectionVars, maintenanceVars,
                           terminology_trace, logs, popularity_ranking,
                           content_gaps, unmapped_terms, pc>>

AutoFix ==
    \E reply \in LlmReplies, with_auto_fix \in BOOLEAN, dry_run \in BOOLEAN :
        DiagnoseEnd(reply, with_auto_fix, dry_run)

\* main of diagnose_search.py: the run is over (or has raised), the
\* connection is closed and the process ends; the next job starts after it
ResolverExit ==
    /\ terminology_trace # NoResult
    /\ terminology_trace' = NoResult
    /\ auto_fix' = NoResult
    /\ all_results' = NoResult
    /\ UNCHANGED <<sideVars, sectionVars, maintenanceVars, terminology_map,
                   last_insert, logs, popularity_ranking, content_gaps,
                   unmapped_terms, pc>>

Next ==
    \/ SeedLoad
    \/ AnalyzerInsert
    \/ LogAnalyzerInsert
    \/ IncrementUsage
    \/ TraceTerminology
    \/ AutoFix
    \/ ResolverExit

Spec == Init /\ [][Next]_vars

-----------------------------------------------------------------------------
(* Claims about the terminology store and the resolver, under Spec.        *)

KeyUnique ==
    \A r1, r2 \in terminology_map : SameKey(r1, r2) => r1 = r2

CanonicalKept ==
    \A r \in terminology_map :
        \E r2 \in terminology_map' :
            SameKey(r, r2) /\ r2.canonical_term = r.canonical_term

\* C1: after any sequence of seed loads and suggestion inserts the store holds
\* at most one row per (map_type, user_term), and no call changes the
\* canonical_term of a row whose key already exists (nor removes the row).
C1_IdempotentUpsert == [](KeyUnique) /\ [][CanonicalKept]_vars

\* C1 witness: a seed load ran on a store that already held the seed key
\* (content_type, 'one pager') as a suggestion, and the suggestion's
\* canonical_term is still there beside the newly seeded rows.
C1_Witness ==
    /\ last_insert.op = "seed"
    /\ \E r \in terminology_map :
           /\ r.map_type = "content_type" /\ r.user_term = T_one_pager
           /\ r.canonical_term = T_Brochure
    /\ \E r \in terminology_map : r.user_term = T_pager /\ r.source = "seed"

CreatedRows ==
    {r \in terminology_map' : ~\E r0 \in terminology_map : SameKey(r0, r)}

\* C2: every row a suggestion insert creates (the analyzer's, the log
\* analyzer's, the resolver's auto-fix) is created with is_active = false and
\* is_verified = false.
C2_SuggestedInactive ==
    [][last_insert'.op \in {"analyzer", "log_analyzer", "auto_fix"}
          => \A r \in CreatedRows : ~r.is_active /\ ~r.is_verified]_vars

\* C2 witness: a suggestion insert has just added a row, and the row is there
\* inactive and unverified.
C2_Witness ==
    /\ last_insert.op \in {"analyzer", "log_analyzer"}
    /\ last_insert.returned > 0
    /\ \E r \in terminology_map :
           r.source = "log_analysis" /\ ~r.is_active /\ ~r.is_verified

\* C3 (as claimed): the trace consults only active mappings: every matched
\* mapping is an active row, and a token that no active row matches stays in
\* unmatched_tokens.
C3_OnlyActiveConsulted ==
    terminology_trace.status = "traced" =>
        /\ \A e \in terminology_trace.matched_mappings :
               \E r \in terminology_map :
                   /\ r.map_type = e.map_type /\ r.user_term = e.user_term
                   /\ r.is_active
        /\ \A t \in Range(terminology_trace.tokens) :
               (~\E r \in terminology_map : r.is_active /\ TokenMatches(t, r))
                   => t \in terminology_trace.unmatched_tokens

\* C4 (as claimed, for the queries that have at least one token; a query
\* without tokens reports 0 with nothing unmatched): mapping_coverage, in
\* tenths of a percent, lies in 0..1000 and is 1000 exactly when
\* unmatched_tokens is empty.
C4_CoverageBound ==
    (terminology_trace.status = "traced" /\ terminology_trace.tokens # <<>>) =>
        /\ terminology_trace.mapping_coverage >= 0
        /\ terminology_trace.mapping_coverage <= 1000
        /\ (terminology_trace.mapping_coverage = 1000
               <=> terminology_trace.unmatched_tokens = {})

\* C5 (as claimed): a token is in unmatched_tokens if and only if no mapping
\* the trace consults matches it.
C5_UnmatchedIffNoMatch ==
    terminology_trace.status = "traced" =>
        \A t \in Range(terminology_trace.tokens) :
            t \in terminology_trace.unmatched_tokens
                <=> ~\E m \in AllMappings(terminology_map) : TokenMatches(t, m)

-----------------------------------------------------------------------------
(* The analyzer (query_popularity_report.py): popularity ranking and gaps. *)

Q_FAFSA_checklist == <<"F","A","F","S","A"," ","c","h","e","c","k","l","i","s","t">>
Q_fafsa_checklist_sp == <<" ","f","a","f","s","a"," ","c","h","e","c","k","l","i","s","t"," ">>
Q_Need_1_Pager == <<"N","e","e","d"," ","1","-","P","a","g","e","r">>
Q_blank == <<" "," ">>
N_fafsa_checklist == <<"f","a","f","s","a"," ","c","h","e","c","k","l","i","s","t">>
I_One_Pager_Template == <<"O","n","e"," ","P","a","g","e","r"," ","T","e","m","p","l","a","t","e">>
I_Pager_guide == <<"P","a","g","e","r"," ","g","u","i","d","e">>
I_FAQ == <<"F","A","Q">>
I_one_page_overview == <<"o","n","e"," ","p","a","g","e"," ","o","v","e","r","v","i","e","w">>

LOW_RECOMMENDATION_THRESHOLD == 2

\* (log['query'] or '').strip().lower()
Normalized(query) == IF query = NullText THEN T_empty ELSE Lower(Strip(query))

\* the keys of a dict filled in this order: first occurrences, in order
FirstOccurrences(seq) ==
    WithValue(seq, LAMBDA s :
        SelectIdx(s, {i \in DOMAIN s : \A j \in 1..(i - 1) : s[j] # s[i]}, 1))

RECURSIVE SumSeq(_)
SumSeq(seq) == IF seq = <<>> THEN 0 ELSE seq[1] + SumSeq(Tail(seq))

\* a list left as it is (no sort)
Unsorted(seq) == seq

\* list.sort(key=lambda x: x['count'], reverse=True): stable, descending.
\* An element goes after the larger ones and after the equal ones before it
SortByCountDesc(seq) ==
    WithValue(seq, LAMBDA s :
        LET pos(i) == Cardinality({j \in DOMAIN s : s[j].count > s[i].count})
                      + Cardinality({j \in 1..i : s[j].count = s[i].count})
        IN  [p \in DOMAIN s |-> s[CHOOSE i \in DOMAIN s : pos(i) = p]])

\* one entry of the ranking, before its rank is set; avg_recommendations is
\* round(sum(recs) / len(recs), 2), kept in hundredths
RankingEntry(query_text, count, recs_sum) ==
    [query |-> query_text,
     count |-> count,
     avg_recommendations |-> RoundDiv(recs_sum * 100, count)]

\* for i, item in enumerate(ranking): item['rank'] = i + 1
WithRanks(ranking) ==
    WithValue(ranking, LAMBDA r :
        [i \in DOMAIN r |->
            [query |-> r[i].query,
             count |-> r[i].count,
             avg_recommendations |-> r[i].avg_recommendations,
             rank |-> i]])

\* the groups of the normalized queries, in the order of their first log
QueryGroups(rows, normalized) ==
    WithValue(FirstOccurrences(SelectIdx(normalized,
                  {i \in DOMAIN normalized : normalized[i] # T_empty}, 1)),
        LAMBDA keys :
            [j \in DOMAIN keys |->
                WithValue({i \in DOMAIN rows : normalized[i] = keys[j]},
                    LAMBDA entries :
                        RankingEntry(keys[j], Cardinality(entries),
                            SumSeq(SelectIdx(
                                [i \in DOMAIN rows |-> rows[i].recommendations_count],
                                entries, 1))))])

\* generate_popularity_ranking(logs). The latency, complexity and query-type
\* aggregates of an entry are not modelled
generate_popularity_ranking(rows) ==
    WithValue([i \in DOMAIN rows |-> Normalized(rows[i].query)],
        LAMBDA normalized :
            WithRanks(SortByCountDesc(QueryGroups(rows, normalized))))

\* the content inventory (title, summary, tags of marketing_content)
ContentInventory ==
    << [title |-> I_One_Pager_Template, summary |-> NullText, tags |-> T_pager],
       [title |-> I_Pager_guide, summary |-> T_empty, tags |-> NullText],
       [title |-> I_FAQ, summary |-> I_one_page_overview, tags |-> NullText] >>

\* ' '.join(filter(None, [title.lower(), summary.lower(), tags.lower()]))
ContentText(item) ==
    WithValue(<<LowerOrEmpty(item.title), LowerOrEmpty(item.summary),
                LowerOrEmpty(item.tags)>>,
        LAMBDA parts :
            JoinSpace(SelectIdx(parts, {i \in DOMAIN parts : parts[i] # T_empty}, 1)))

\* content_texts: the searchable text of every inventory item
ContentTexts(content_inventory) ==
    [i \in DOMAIN content_inventory |-> ContentText(content_inventory[i])]

\* the number of texts that contain a query word longer than two characters
ContentMatches(query_text, content_texts) ==
    WithValue(Split(query_text), LAMBDA query_words :
        LET significant_words ==
                {query_words[j] : j \in
                    {k \in DOMAIN query_words : Len(query_words[k]) > 2}}
        IN  Cardinality({i \in DOMAIN content_texts :
                            \E word \in significant_words :
                                Contains(word, content_texts[i])}))

\* a severity chain that tests the threshold before zero
SeverityThresholdFirst(count, avg_recs, content_matches) ==
    IF avg_recs < LOW_RECOMMENDATION_THRESHOLD * 100 THEN "medium"
    ELSE IF avg_recs = 0 THEN "high"
    ELSE IF content_matches < 3 /\ count >= 3 THEN "low"
    ELSE "none"

\* the gap severity of an entry (avg_recs in hundredths); "none": not a gap
Severity(count, avg_recs, content_matches) ==
    IF avg_recs = 0 THEN "high"
    ELSE IF avg_recs < LOW_RECOMMENDATION_THRESHOLD * 100 THEN "medium"
    ELSE IF content_matches < 3 /\ count >= 3 THEN "low"
    ELSE "none"

\* a score that grows with the average: count * (avg_recs + 0.1)
GapScoreTimes(count, avg_recs) == count * (avg_recs + 10)

\* a score that ignores the average
GapScoreCountOnly(count, avg_recs) == count * 1000

\* round(count * (1 / (avg_recs + 0.1)), 2), in hundredths
GapScore(count, avg_recs) == RoundDiv(count * 10000, avg_recs + 10)

\* gaps.sort(key=lambda x: x['gap_score'], reverse=True): stable, descending
SortByGapScoreDesc(seq) ==
    WithValue(seq, LAMBDA s :
        LET pos(i) == Cardinality({j \in DOMAIN s : s[j].gap_score > s[i].gap_score})
                      + Cardinality({j \in 1..i : s[j].gap_score = s[i].gap_score})
        IN  [p \in DOMAIN s |-> s[CHOOSE i \in DOMAIN s : pos(i) = p]])

\* what the loop works out for one entry of the ranking
GapOf(entry, content_texts) ==
    WithValue(ContentMatches(entry.query, content_texts), LAMBDA content_matches :
        [query |-> entry.query,
         search_count |-> entry.count,
         avg_recommendations |-> entry.avg_recommendations,
         content_matches_found |-> content_matches,
         gap_severity |-> Severity(entry.count, entry.avg_recommendations,
                                   content_matches),
         gap_score |-> GapScore(entry.count, entry.avg_recommendations)])

\* generate_content_gap_analysis(popularity_ranking, content_inventory)
generate_content_gap_analysis(ranking, content_inventory) ==
    WithValue(<<ranking, ContentTexts(content_inventory)>>, LAMBDA a :
        WithValue([i \in DOMAIN a[1] |-> GapOf(a[1][i], a[2])], LAMBDA gaps :
            SortByGapScoreDesc(SelectIdx(gaps,
                {i \in DOMAIN gaps : /\ gaps[i].search_count >= 2
                                     /\ gaps[i].gap_severity # "none"}, 1))))

-----------------------------------------------------------------------------
(* The analyzer: terminology mining.                                       *)

\* the stopwords of generate_terminology_suggestions
Stopwords ==
    {<<"t","h","e">>, <<"a">>, <<"a","n">>, <<"a","n","d">>, <<"o","r">>,
     <<"b","u","t">>, <<"i","n">>, <<"o","n">>, <<"a","t">>, <<"t","o">>,
     <<"f","o","r">>, <<"o","f">>, <<"w","i","t","h">>, <<"b","y">>,
     <<"f","r","o","m">>, <<"i","s">>, <<"a","r","e">>, <<"w","a","s">>,
     <<"w","e","r","e">>, <<"b","e">>, <<"b","e","e","n">>, <<"h","a","s">>,
     <<"h","a","v","e">>, <<"h","a","d">>, <<"d","o">>, <<"d","o","e","s">>,
     <<"d","i","d">>, <<"w","i","l","l">>, <<"w","o","u","l","d">>,
     <<"c","o","u","l","d">>, <<"s","h","o","u","l","d">>, <<"m","a","y">>,
     <<"m","i","g","h","t">>, <<"c","a","n">>, <<"s","h","a","l","l">>,
     <<"n","o","t">>, <<"n","o">>, <<"n","o","r">>, <<"i","t">>,
     <<"i","t","s">>, <<"t","h","i","s">>, <<"t","h","a","t">>,
     <<"t","h","e","s","e">>, <<"t","h","o","s","e">>, <<"i">>, <<"m","e">>,
     <<"m","y">>, <<"w","e">>, <<"o","u","r">>, <<"y","o","u">>,
     <<"y","o","u","r">>, <<"h","e">>, <<"s","h","e">>, <<"t","h","e","y">>,
     <<"t","h","e","m">>, <<"t","h","e","i","r">>, <<"w","h","a","t">>,
     <<"w","h","i","c","h">>, <<"w","h","o">>, <<"w","h","e","n">>,
     <<"w","h","e","r","e">>, <<"w","h","y">>, <<"h","o","w">>,
     <<"a","l","l">>, <<"e","a","c","h">>, <<"e","v","e","r","y">>,
     <<"b","o","t","h">>, <<"f","e","w">>, <<"m","o","r","e">>,
     <<"m","o","s","t">>, <<"o","t","h","e","r">>, <<"s","o","m","e">>,
     <<"s","u","c","h">>, <<"a","n","y">>, <<"s","h","o","w">>,
     <<"f","i","n","d">>, <<"g","e","t">>, <<"g","i","v","e">>,
     <<"a","b","o","u","t">>, <<"l","i","k","e">>, <<"n","e","e","d">>,
     <<"w","a","n","t">>, <<"l","o","o","k","i","n","g">>,
     <<"s","e","a","r","c","h">>, <<"c","o","n","t","e","n","t">>,
     <<"s","c","h","o","o","l","i","n","k","s">>,
     <<"s","c","h","o","o","l","i","n","k">>}

MostCommonLimit == 100
UnmappedLimit == 50
ExampleLimit == 3

\* fetch_terminology_mappings(conn): the active rows, as
\* (map_type, user_term, canonical_term)
fetch_terminology_mappings(table) ==
    {[map_type |-> r.map_type, user_term |-> r.user_term,
      canonical_term |-> r.canonical_term] : r \in {x \in table : x.is_active}}

\* mapped terms taken from the keys of the mappings only
MappedKeysOnly(existing_mappings) ==
    {Lower(m.user_term) : m \in existing_mappings}

\* mapped_terms: the lower-cased keys and values of every type's mappings
MappedTerms(existing_mappings) ==
    {Lower(m.user_term) : m \in existing_mappings}
        \cup {Lower(m.canonical_term) : m \in existing_mappings}

\* seq[:n]
Take(seq, n) ==
    WithValue(seq, LAMBDA s : SubSeq(s, 1, IF Len(s) < n THEN Len(s) ELSE n))

\* the unigrams of a normalized query that are counted
Unigrams(query, mapped_terms) ==
    WithValue(Split(query), LAMBDA query_words :
        WithValue([j \in DOMAIN query_words |-> Lower(Strip(query_words[j]))],
            LAMBDA words :
                SelectIdx(words, {j \in DOMAIN words :
                                     /\ Len(words[j]) > 2
                                     /\ words[j] \notin Stopwords
                                     /\ words[j] \notin mapped_terms}, 1)))

\* the bigrams of a normalized query that are counted
Bigrams(query, mapped_terms) ==
    WithValue(Split(query), LAMBDA query_words :
        WithValue([j \in 1..(Len(query_words) - 1) |->
                      query_words[j] \o <<" ">> \o query_words[j + 1]],
            LAMBDA bigram :
                SelectIdx(bigram, {j \in DOMAIN bigram :
                                      /\ bigram[j] \notin mapped_terms
                                      /\ ~(\A w \in Range(Split(bigram[j])) :
                                              w \in Stopwords)}, 1)))

\* the counted terms of one log row, each with the query it came from
TermsOfRow(row, mapped_terms) ==
    WithValue(Normalized(row.query), LAMBDA query :
        WithValue(Unigrams(query, mapped_terms) \o Bigrams(query, mapped_terms),
            LAMBDA terms :
                [j \in DOMAIN terms |-> [term |-> terms[j], query |-> query]]))

\* every counted occurrence of a term, in the order the loop meets them
RECURSIVE TermOccurrences(_, _, _)
TermOccurrences(rows, i, mapped_terms) ==
    IF i > Len(rows) THEN <<>>
    ELSE TermsOfRow(rows[i], mapped_terms)
             \o TermOccurrences(rows, i + 1, mapped_terms)

\* term_counter with term_examples, in the order of first occurrence
TermCounter(occurrences) ==
    WithValue(FirstOccurrences([j \in DOMAIN occurrences |-> occurrences[j].term]),
        LAMBDA terms :
            [k \in DOMAIN terms |->
                WithValue({j \in DOMAIN occurrences :
                              occurrences[j].term = terms[k]},
                    LAMBDA at :
                        [term |-> terms[k],
                         count |-> Cardinality(at),
                         example_queries |->
                             {e.query : e \in Range(Take(
                                 SelectIdx(occurrences, at, 1), ExampleLimit))}])])

\* Part A of generate_terminology_suggestions(logs, existing_mappings):
\* result['unmapped_terms']
generate_terminology_suggestions(rows, existing_mappings) ==
    WithValue(MappedTerms(existing_mappings), LAMBDA mapped_terms :
        WithValue(TermOccurrences(rows, 1, mapped_terms), LAMBDA occurrences :
            WithValue(Take(SortByCountDesc(TermCounter(occurrences)),
                           MostCommonLimit),
                LAMBDA most_common :
                    Take(SelectIdx(most_common,
                                   {k \in DOMAIN most_common :
                                       most_common[k].count >= 2}, 1),
                         UnmappedLimit))))

\* Part B: the suggestions of the completion service that pass the filter
\* (none without a client, none when nothing was mined)
FilterSuggestions(reply, mined, existing_mappings) ==
    IF mined = <<>> THEN <<>>
    ELSE WithValue(MappedTerms(existing_mappings), LAMBDA mapped_terms :
             SelectIdx(reply,
                       {j \in DOMAIN reply :
                           (IF reply[j].user_term = AbsentText THEN T_empty
                            ELSE Lower(reply[j].user_term)) \notin mapped_terms},
                       1))

-----------------------------------------------------------------------------
(* Topic clusters, competitor intelligence and the metrics of the report.  *)

\* the fixed dictionary COMPETITOR_KEYWORDS
COMPETITOR_KEYWORDS ==
    <<<<"n","a","v","i","a","n","c","e">>,
      <<"x","e","l","l","o">>,
      <<"s","c","o","i","r">>,
      <<"m","a","j","o","r","c","l","a","r","i","t","y">>,
      <<"p","o","w","e","r","s","c","h","o","o","l">>,
      <<"k","u","d","e","r">>,
      <<"y","o","u","s","c","i","e","n","c","e">>,
      <<"m","a","i","a">>,
      <<"m","a","i","a","l","e","a","r","n","i","n","g">>,
      <<"c","c","g","i">>>>

\* the fixed dictionary CONTENT_TYPE_KEYWORDS
CONTENT_TYPE_KEYWORDS ==
    <<<<"v","i","d","e","o">>,
      <<"w","e","b","i","n","a","r">>,
      <<"e","b","o","o","k">>,
      <<"b","l","o","g">>,
      <<"c","a","s","e"," ","s","t","u","d","y">>,
      <<"c","u","s","t","o","m","e","r"," ","s","t","o","r","y">>,
      <<"1","-","p","a","g","e","r">>,
      <<"o","n","e"," ","p","a","g","e","r">>,
      <<"f","a","c","t"," ","s","h","e","e","t">>,
      <<"w","h","i","t","e","p","a","p","e","r">>,
      <<"b","r","o","c","h","u","r","e">>,
      <<"p","r","e","s","s"," ","r","e","l","e","a","s","e">>,
      <<"a","w","a","r","d">>,
      <<"l","a","n","d","i","n","g"," ","p","a","g","e">>,
      <<"a","s","s","e","t">>,
      <<"v","i","d","e","o"," ","c","l","i","p">>>>

\* the fixed dictionary FEATURE_KEYWORDS
FEATURE_KEYWORDS ==
    <<<<"k","r","i">>,
      <<"p","l","p">>,
      <<"i","l","p">>,
      <<"e","c","a","p">>,
      <<"p","u","l","s","e">>,
      <<"g","a","m","e"," ","o","f"," ","l","i","f","e">>,
      <<"t","r","a","n","s","c","r","i","p","t">>,
      <<"c","a","m">>,
      <<"c","o","l","l","e","g","e"," ","a","p","p">>,
      <<"c","o","u","r","s","e"," ","p","l","a","n","n","e","r">>,
      <<"g","r","a","d","u","a","t","i","o","n">>,
      <<"s","c","h","e","d","u","l","e","r">>,
      <<"c","a","r","e","e","r"," ","e","x","p","l","o","r","a","t","i","o","n">>,
      <<"i","n","t","e","r","e","s","t"," ","p","r","o","f","i","l","e","r">>,
      <<"w","o","r","k","-","b","a","s","e","d"," ","l","e","a","r","n","i","n","g">>>>

\* the fixed dictionary PERSONA_KEYWORDS
PERSONA_KEYWORDS ==
    <<<<"c","o","u","n","s","e","l","o","r">>,
      <<"a","d","m","i","n","i","s","t","r","a","t","o","r">>,
      <<"p","r","i","n","c","i","p","a","l">>,
      <<"s","u","p","e","r","i","n","t","e","n","d","e","n","t">>,
      <<"p","a","r","e","n","t">>,
      <<"s","t","u","d","e","n","t">>,
      <<"c","t","e">>,
      <<"t","e","a","c","h","e","r">>,
      <<"c","o","o","r","d","i","n","a","t","o","r">>,
      <<"d","i","r","e","c","t","o","r">>>>

\* the fixed dictionary TOPIC_KEYWORDS
TOPIC_KEYWORDS ==
    <<<<"f","a","f","s","a">>,
      <<"f","i","n","a","n","c","i","a","l"," ","a","i","d">>,
      <<"w","b","l">>,
      <<"w","o","r","k","-","b","a","s","e","d"," ","l","e","a","r","n","i","n","g">>,
      <<"i","n","t","e","r","n","s","h","i","p">>,
      <<"c","a","r","e","e","r"," ","r","e","a","d","i","n","e","s","s">>,
      <<"c","o","l","l","e","g","e"," ","r","e","a","d","i","n","e","s","s">>,
      <<"c","c","m","r">>,
      <<"s","e","l">>,
      <<"s","o","c","i","a","l"," ","e","m","o","t","i","o","n","a","l">>,
      <<"c","c","r">>,
      <<"p","o","s","t","-","s","e","c","o","n","d","a","r","y">>,
      <<"d","u","a","l"," ","e","n","r","o","l","l","m","e","n","t">>,
      <<"c","t","e">>,
      <<"e","q","u","i","t","y">>>>

Q_Naviance_comparison == <<"N","a","v","i","a","n","c","e"," ","c","o","m","p","a","r","i","s","o","n">>
Q_naviance_vs_xello == <<"n","a","v","i","a","n","c","e"," ","v","s"," ","x","e","l","l","o">>
Q_MaiaLearning == <<"M","a","i","a","L","e","a","r","n","i","n","g"," ","d","e","m","o">>
Q_fafsa_video == <<"f","a","f","s","a"," ","v","i","d","e","o">>
Q_hello == <<"h","e","l","l","o">>
T_naviance == <<"n","a","v","i","a","n","c","e">>

\* the queries as they were logged, not lower-cased
QueriesAsLogged(logrows) == [i \in DOMAIN logrows |-> logrows[i].query]

\* query_lower = (log['query'] or '').lower(), for every row
QueriesLower(logrows) == [i \in DOMAIN logrows |-> LowerOrEmpty(logrows[i].query)]

\* the pairs (keyword position, row position) with `kw in query_lower`
KeywordHits(keywords, lowered) ==
    {h \in (DOMAIN keywords) \X (DOMAIN lowered) :
        \E i \in 1..(Len(lowered[h[2]]) - Len(keywords[h[1]]) + 1) :
            /\ lowered[h[2]][i] = keywords[h[1]][1]
            /\ SubSeq(lowered[h[2]], i, i + Len(keywords[h[1]]) - 1)
                   = keywords[h[1]]}

\* one keyword cluster from its hits: count = sum(len(v)),
\* breakdown = {k: len(v)}
KeywordCluster(keywords, hits) ==
    [count |-> Cardinality(hits),
     breakdown |-> [kw \in {keywords[h[1]] : h \in hits} |->
                       Cardinality({h \in hits : keywords[h[1]] = kw})]]

\* states = log.get('detected_states') or []: the pairs (row position,
\* position in its array)
StateHits(logrows) ==
    UNION {{<<i, j>> : j \in DOMAIN logrows[i].detected_states} :
              i \in DOMAIN logrows}

StateCluster(logrows, hits) ==
    [count |-> Cardinality(hits),
     breakdown |->
         [st \in {logrows[h[1]].detected_states[h[2]] : h \in hits} |->
             Cardinality({h \in hits :
                 logrows[h[1]].detected_states[h[2]] = st})]]

\* generate_topic_clusters: count and breakdown of every cluster, count and
\* queries of the uncategorized bucket, the rows for which `matched` stays
\* False (top_queries is left out; the bucket never holds more than its 20
\* examples here)
generate_topic_clusters(logrows) ==
    WithValue(QueriesLower(logrows), LAMBDA lowered :
        WithValue([competitor |-> KeywordHits(COMPETITOR_KEYWORDS, lowered),
                   state_specific |-> StateHits(logrows),
                   content_type |-> KeywordHits(CONTENT_TYPE_KEYWORDS, lowered),
                   feature |-> KeywordHits(FEATURE_KEYWORDS, lowered),
                   persona |-> KeywordHits(PERSONA_KEYWORDS, lowered),
                   topic |-> KeywordHits(TOPIC_KEYWORDS, lowered)],
                  LAMBDA hits :
            LET unmatched ==
                    {i \in DOMAIN logrows :
                        /\ \A c \in {"competitor", "content_type", "feature",
                                     "persona", "topic"} :
                               \A h \in hits[c] : h[2] # i
                        /\ \A h \in hits.state_specific : h[1] # i}
            IN  [competitor |->
                     KeywordCluster(COMPETITOR_KEYWORDS, hits.competitor),
                 state_specific |-> StateCluster(logrows, hits.state_specific),
                 content_type |->
                     KeywordCluster(CONTENT_TYPE_KEYWORDS, hits.content_type),
                 feature |-> KeywordCluster(FEATURE_KEYWORDS, hits.feature),
                 persona |-> KeywordCluster(PERSONA_KEYWORDS, hits.persona),
                 topic |-> KeywordCluster(TOPIC_KEYWORDS, hits.topic),
                 uncategorized |->
                     [count |-> Cardinality(unmatched),
                      queries |-> {lowered[i] : i \in unmatched}]]))

\* one entry of competitors, from the positions of the rows that mention
\* it; avg_recommendations in hundredths (avg_response_time_ms and
\* top_queries are left out)
CompetitorEntry(name, entries, logrows) ==
    LET recs == SumSeq([i \in DOMAIN logrows |->
                           IF i \in entries
                           THEN logrows[i].recommendations_count ELSE 0])
        avg_recs == RoundDiv(recs * 100, Cardinality(entries))
    IN  [name |-> name,
         mention_count |-> Cardinality(entries),
         avg_recommendations |-> avg_recs,
         result_quality |-> IF avg_recs >= 300 THEN "good"
                            ELSE IF avg_recs >= 100 THEN "fair" ELSE "poor"]

\* sum(c['mention_count'] for c in competitors)
MentionTotal(competitors) ==
    SumSeq([i \in DOMAIN competitors |-> competitors[i].mention_count])

\* generate_competitor_intelligence: competitor_data is filled row by row,
\* keyword by keyword; its keys are in the order they were first filled
generate_competitor_intelligence(logrows) ==
    WithValue(KeywordHits(COMPETITOR_KEYWORDS, QueriesLower(logrows)), LAMBDA hits :
        LET K == Len(COMPETITOR_KEYWORDS)
            filled == SelectIdx(
                [n \in 1..(K * Len(logrows)) |->
                    COMPETITOR_KEYWORDS[((n - 1) % K) + 1]],
                {n \in 1..(K * Len(logrows)) :
                    <<((n - 1) % K) + 1, ((n - 1) \div K) + 1>> \in hits}, 1)
            names == FirstOccurrences(filled)
            unsorted == [i \in DOMAIN names |->
                [count |-> Cardinality({h \in hits :
                               COMPETITOR_KEYWORDS[h[1]] = names[i]}),
                 entry |-> CompetitorEntry(names[i],
                               {h[2] : h \in {g \in hits :
                                   COMPETITOR_KEYWORDS[g[1]] = names[i]}},
                               logrows)]]
            sorted == SortByCountDesc(unsorted)
            competitors == [i \in DOMAIN sorted |-> sorted[i].entry]
        IN  [total_competitor_queries |-> MentionTotal(competitors),
             competitors |-> competitors])

\* main: metrics; avg_recommendations in hundredths, of a non-empty log
Metrics(logrows) ==
    LET recs_all == [i \in DOMAIN logrows |-> logrows[i].recommendations_count]
    IN  [total_logs |-> Len(logrows),
         avg_recommendations |-> RoundDiv(SumSeq(recs_all) * 100, Len(recs_all)),
         zero_result_queries |->
             Cardinality({i \in DOMAIN recs_all : recs_all[i] = 0}),
         low_confidence_queries |->
             Cardinality({i \in DOMAIN recs_all :
                             recs_all[i] < LOW_RECOMMENDATION_THRESHOLD}),
         competitor_queries |->
             Cardinality({h[2] : h \in KeywordHits(COMPETITOR_KEYWORDS,
                                                   QueriesLower(logrows))})]

-----------------------------------------------------------------------------
(* Specification SpecGap: generate_content_gap_analysis applied to the     *)
(* rankings generate_popularity_ranking can produce for up to two queries. *)

MaxCount == 6
MaxRecSum == 36

\* queries that 0, 2 and 3 items of the inventory match
GapQueries == {N_fafsa_checklist, T_pager, T_one_pager}

\* the queries that stay a gap when they return results
PoorlyCoveredQueries == {N_fafsa_checklist, T_pager}

\* the ranking of a log in which one query, or each of two queries, was
\* logged count times with recommendation counts adding up to recs_sum
RankingInputs ==
    LET entries(queries) ==
            {RankingEntry(q, c, t) :
                q \in queries, c \in 1..MaxCount, t \in 0..MaxRecSum}
        singles == {<<e>> : e \in entries(GapQueries)}
        pairs == {<<p[1], p[2]>> : p \in
                     {pr \in entries(PoorlyCoveredQueries)
                                 \X entries(PoorlyCoveredQueries) :
                         pr[1].query # pr[2].query /\ pr[2].count <= pr[1].count}}
    IN  {WithRanks(r) : r \in singles \cup pairs}

ResolverIdle ==
    /\ terminology_map = {}
    /\ last_insert = [op |-> "none", returned |-> 0]
    /\ terminology_trace = NoResult
    /\ auto_fix = NoResult

InitGap ==
    /\ ResolverIdle
    /\ logs = <<>>
    /\ popularity_ranking \in RankingInputs
    /\ content_gaps = <<>>
    /\ unmapped_terms = <<>>
    /\ pc = "ranked"
    /\ query_clusters = NoResult
    /\ competitor_intelligence = NoResult
    /\ metrics = NoResult
    /\ orch = NoRun
    /\ health_pre = NoFile
    /\ health_report = NoResult
    /\ all_results = NoResult
    /\ enrich = NoRun
    /\ marketing_content = NoContent
    /\ completion_service = NoService
    /\ ai_report = NoResult
    /\ health_post = NoFile

\* main, section 2 of the report
GapAnalysis ==
    /\ pc = "ranked"
    /\ content_gaps' =
           generate_content_gap_analysis(popularity_ranking, ContentInventory)
    /\ pc' = "gaps"
    /\ UNCHANGED <<toolVars, sectionVars, maintenanceVars,
                   terminology_map, last_insert, terminology_trace, auto_fix,
                   logs, popularity_ranking, unmapped_terms>>

NextGap == GapAnalysis

SpecGap == InitGap /\ [][NextGap]_vars

-----------------------------------------------------------------------------
(* Specification SpecAnalyzer: queries are logged, the seed is loaded and  *)
(* the analyzer reports over the log.                                      *)

MaxLogs == 3

\* rows of ai_prompt_logs as the portal writes them
LoggedRows ==
    {[query |-> Q_FAFSA_checklist, recommendations_count |-> 0,
      detected_states |-> <<>>],
     [query |-> Q_fafsa_checklist_sp, recommendations_count |-> 0,
      detected_states |-> <<>>],
     [query |-> Q_fafsa_checklist_sp, recommendations_count |-> 3,
      detected_states |-> <<>>],
     [query |-> Q_Need_1_Pager, recommendations_count |-> 3,
      detected_states |-> <<>>],
     [query |-> Q_blank, recommendations_count |-> 0,
      detected_states |-> <<>>]}

\* what the completion service may reply to the terminology prompt
\* (the empty reply also stands for a run without a client)
SuggestionReplies ==
    {<<>>,
     <<[map_type |-> "content_type", user_term |-> T_checklist,
        canonical_term |-> T_Ebook, confidence |-> 50],
       [map_type |-> "topic", user_term |-> T_FAFSA,
        canonical_term |-> T_FAFSA, confidence |-> 90]>>}

\* the report objects of an earlier analyzer process are gone
ReportGone ==
    /\ popularity_ranking' = <<>>
    /\ content_gaps' = <<>>
    /\ unmapped_terms' = <<>>
    /\ pc' = "idle"
    /\ query_clusters' = NoResult
    /\ competitor_intelligence' = NoResult
    /\ metrics' = NoResult

\* the portal logs a query; fetch_all_logs returns the newest row first
LogQuery ==
    \E row \in LoggedRows :
        /\ Len(logs) < MaxLogs
        /\ logs' = <<row>> \o logs
        /\ ReportGone
        /\ UNCHANGED <<toolVars, maintenanceVars,
                       terminology_map, last_insert, terminology_trace, auto_fix>>

\* run_terminology_migration.py, migration 2, between analyzer runs
AnalyzerSeed ==
    /\ terminology_map' = seed_sql(terminology_map, 1)
    /\ last_insert' = [op |-> "seed", returned |-> 0]
    /\ ReportGone
    /\ UNCHANGED <<toolVars, maintenanceVars,
                   terminology_trace, auto_fix, logs>>

\* query_popularity_report.py main: the metrics, sections 1, 2, 3, 4 and 6
\* of the report, the save of the report and the insert of the suggestions
\* (main returns at once on an empty log)
Analyze ==
    \E popularity \in {generate_popularity_ranking(logs)},
       mappings \in {fetch_terminology_mappings(terminology_map)} :
        \E mined \in {generate_terminology_suggestions(logs, mappings)} :
            /\ logs # <<>>
            /\ metrics' = Metrics(logs)
            /\ popularity_ranking' = popularity
            /\ content_gaps' =
                   generate_content_gap_analysis(popularity, ContentInventory)
            /\ query_clusters' = generate_topic_clusters(logs)
            /\ unmapped_terms' = mined
            /\ competitor_intelligence' = generate_competitor_intelligence(logs)
            /\ pc' = "reported"
            /\ \E reply \in SuggestionReplies, dry_run \in BOOLEAN :
                   \E ai_suggestions \in
                          {FilterSuggestions(reply, mined, mappings)} :
                       \E r \in {IF dry_run \/ ai_suggestions = <<>>
                                 THEN [table |-> terminology_map, returned |-> 0]
                                 ELSE insert_terminology_suggestions(
                                          terminology_map, ai_suggestions,
                                          FALSE)} :
                           /\ terminology_map' = r.table
                           /\ last_insert' =
                                  [op |-> "analyzer",
                                   returned |-> r.returned,
                                   dry_run |-> dry_run,
                                   reports |-> save_report_to_db(dry_run)]
            /\ UNCHANGED <<toolVars, maintenanceVars, terminology_trace, auto_fix, logs>>

NextAnalyzer ==
    \/ LogQuery
    \/ AnalyzerSeed
    \/ Analyze

SpecAnalyzer == Init /\ [][NextAnalyzer]_vars

-----------------------------------------------------------------------------
(* The health monitor (health_monitor.py) and the maintenance orchestrator *)
(* (maintenance_orchestrator.py).                                          *)

\* what can happen to the anomaly pass: --skip-ai, no key, the call raises,
\* the reply holds no {...}, its {...} is not JSON, or it is a JSON object
AnomalyPassFailures == {"raises", "no_json", "bad_json"}

AnomalyPasses == {"skip_ai", "no_key", "json"} \cup AnomalyPassFailures

\* step_ai_anomaly_detection(conn, metrics, skip_ai): its status
step_ai_anomaly_detection(pass) ==
    IF pass \in {"skip_ai", "no_key"} THEN "skipped"
    ELSE IF pass = "json" THEN "pass"
    ELSE "warn"

\* the statuses each of the five checks can return, in the order of main
CheckStatuses ==
    <<{"fail", "warn", "pass"},      \* step_query_quality
      {"fail", "pass"},              \* step_content_freshness
      {"warn", "pass"},              \* step_pipeline_status
      {"warn", "pass"},              \* step_terminology_health
      {step_ai_anomaly_detection(pass) : pass \in AnomalyPasses}>>

\* step_results: one status per check
StepResults ==
    {sr \in [DOMAIN CheckStatuses -> {"fail", "warn", "pass", "skipped"}] :
        \A i \in DOMAIN CheckStatuses : sr[i] \in CheckStatuses[i]}

\* a verdict that looks for warnings first
OverallWarnFirst(step_results) ==
    IF \E i \in DOMAIN step_results : step_results[i] = "warn" THEN "degraded"
    ELSE IF \E i \in DOMAIN step_results : step_results[i] = "fail" THEN "critical"
    ELSE "healthy"

\* overall = 'critical' if has_failures else ('degraded' if has_warnings
\* else 'healthy')
Overall(step_results) ==
    IF \E i \in DOMAIN step_results : step_results[i] = "fail" THEN "critical"
    ELSE IF \E i \in DOMAIN step_results : step_results[i] = "warn" THEN "degraded"
    ELSE "healthy"

\* the report of a health monitor run that got through its checks, and the
\* exit code of the process
HealthReport(step_results) ==
    [status |-> "reported",
     steps |-> step_results,
     overall_status |-> Overall(step_results),
     exit_code |-> IF Overall(step_results) = "critical" THEN 1 ELSE 0]

\* a run that ends on an exception (no connection) before it reports
HealthCrash == [status |-> "crashed", exit_code |-> 1]

\* json.dump(report, f) to the --output file
HealthFile(report) ==
    [status |-> "written", overall_status |-> report.overall_status,
     steps |-> report.steps]

\* health_data.get('overall_status', 'unknown') of the file, if it is there
FileStatus(file) ==
    IF file = NoFile THEN "unknown" ELSE file.overall_status

MAINTENANCE_STEPS ==
    [daily |-> <<"health_check_pre", "log_analysis", "enrichment",
                 "tag_hygiene", "health_check_post">>,
     weekly |-> <<"health_check_pre", "log_analysis", "enrichment",
                  "tag_hygiene", "content_audit", "content_gaps",
                  "health_check_post">>,
     full |-> <<"health_check_pre", "log_analysis", "enrichment",
                "tag_hygiene", "content_audit", "content_gaps", "import_all",
                "health_check_post">>]

Modes == DOMAIN MAINTENANCE_STEPS

\* a step list that ignores --skip
StepsUnfiltered(mode, skip_list) == MAINTENANCE_STEPS[mode]

\* steps_to_run = [s for s in steps_to_run if s not in skip_list]
StepsToRun(mode, skip_list) ==
    SelectIdx(MAINTENANCE_STEPS[mode],
              {i \in DOMAIN MAINTENANCE_STEPS[mode] :
                  MAINTENANCE_STEPS[mode][i] \notin skip_list}, 1)

\* an entry of the results dict: a step's result under the step's name
StepEntry(step_name, result) ==
    [key |-> step_name, type |-> "dict", value |-> result]

\* results['stopped_at'] = step_name: a string under the key 'stopped_at'
StoppedAtEntry(step_name) ==
    [key |-> "stopped_at", type |-> "str", value |-> step_name]

\* step_health_check_pre: the result built from the monitor's exit code and
\* from the file as it is after the monitor ran
step_health_check_pre(exit_code, file) ==
    [success |-> exit_code = 0,
     health_status |-> FileStatus(file),
     critical |-> FileStatus(file) = "critical"]

\* a loop without the gate after health_check_pre
HaltsNotAtGate(step_name, result, stop_on_error) ==
    step_name \notin {"health_check_pre", "health_check_post"}
        /\ ~result.success /\ stop_on_error

\* a loop that breaks whether or not --stop-on-error was given
HaltsWithoutFlag(step_name, result, stop_on_error) ==
    IF step_name = "health_check_pre" THEN result.critical
    ELSE IF step_name = "health_check_post" THEN FALSE
    ELSE ~result.success

\* whether the loop of run_maintenance breaks after this step
Halts(step_name, result, stop_on_error) ==
    IF step_name = "health_check_pre" THEN result.critical /\ stop_on_error
    ELSE IF step_name = "health_check_post" THEN FALSE
    ELSE ~result.success /\ stop_on_error

\* results.get('stopped_at')
StoppedAt(results) ==
    IF \E i \in DOMAIN results : results[i].key = "stopped_at"
    THEN results[CHOOSE i \in DOMAIN results :
                     results[i].key = "stopped_at"].value
    ELSE "None"

\* print_maintenance_report(report) calls r.get('success') on every value of
\* results: it raises AttributeError when one of them is a string
PrintRaises(results) == \E i \in DOMAIN results : results[i].type = "str"

-----------------------------------------------------------------------------
(* Specification SpecClusters: generate_topic_clusters,                    *)
(* generate_competitor_intelligence and the metrics applied to fetched     *)
(* logs.                                                                    *)

\* rows of ai_prompt_logs: competitors in mixed case, two competitors in one
\* query, a name that holds another, no competitor, no keyword, a state
ClusterRows ==
    {[query |-> Q_Naviance_comparison, recommendations_count |-> 3,
      detected_states |-> <<>>],
     [query |-> Q_naviance_vs_xello, recommendations_count |-> 0,
      detected_states |-> <<>>],
     [query |-> Q_MaiaLearning, recommendations_count |-> 1,
      detected_states |-> <<>>],
     [query |-> Q_fafsa_video, recommendations_count |-> 2,
      detected_states |-> <<>>],
     [query |-> Q_hello, recommendations_count |-> 0,
      detected_states |-> <<>>],
     [query |-> Q_hello, recommendations_count |-> 0,
      detected_states |-> <<"TX">>],
     [query |-> NullText, recommendations_count |-> 0,
      detected_states |-> <<>>]}

InitClusters ==
    /\ ResolverIdle
    /\ logs \in SeqsUpTo(ClusterRows, 1, MaxLogs)
    /\ popularity_ranking = <<>>
    /\ content_gaps = <<>>
    /\ unmapped_terms = <<>>
    /\ pc = "idle"
    /\ query_clusters = NoResult
    /\ competitor_intelligence = NoResult
    /\ metrics = NoResult
    /\ orch = NoRun
    /\ health_pre = NoFile
    /\ health_report = NoResult
    /\ all_results = NoResult
    /\ enrich = NoRun
    /\ marketing_content = NoContent
    /\ completion_service = NoService
    /\ ai_report = NoResult
    /\ health_post = NoFile

\* main: the metrics of the report
ReportMetrics ==
    /\ metrics' = Metrics(logs)
    /\ UNCHANGED <<toolVars, terminology_map, last_insert, terminology_trace, auto_fix,
                   logs, popularity_ranking, content_gaps, unmapped_terms, pc,
                   query_clusters, competitor_intelligence, maintenanceVars>>

\* main: section 3 of the report
TopicClusters ==
    /\ query_clusters' = generate_topic_clusters(logs)
    /\ UNCHANGED <<toolVars, terminology_map, last_insert, terminology_trace, auto_fix,
                   logs, popularity_ranking, content_gaps, unmapped_terms, pc,
                   metrics, competitor_intelligence, maintenanceVars>>

\* main: section 6 of the report
CompetitorIntelligence ==
    /\ competitor_intelligence' = generate_competitor_intelligence(logs)
    /\ UNCHANGED <<toolVars, terminology_map, last_insert, terminology_trace, auto_fix,
                   logs, popularity_ranking, content_gaps, unmapped_terms, pc,
                   metrics, query_clusters, maintenanceVars>>

NextClusters ==
    \/ ReportMetrics
    \/ TopicClusters
    \/ CompetitorIntelligence

SpecClusters == InitClusters /\ [][NextClusters]_vars

-----------------------------------------------------------------------------
(* Specification SpecHealth: runs of the health monitor.                   *)

\* health_monitor.py main, with or without --output /tmp/health_pre.json
HealthMonitor ==
    \E step_results \in StepResults, output \in BOOLEAN :
        /\ health_report' = HealthReport(step_results)
        /\ health_pre' = IF output THEN HealthFile(HealthReport(step_results))
                         ELSE health_pre
        /\ UNCHANGED <<toolVars, terminology_map, last_insert, terminology_trace,
                       auto_fix, logs, popularity_ranking, content_gaps,
                       unmapped_terms, pc, sectionVars, orch>>

\* health_monitor.py main when get_db_connection raises
HealthMonitorCrash ==
    /\ health_report' = HealthCrash
    /\ UNCHANGED <<toolVars, terminology_map, last_insert, terminology_trace, auto_fix,
                   logs, popularity_ranking, content_gaps, unmapped_terms, pc,
                   sectionVars, orch, health_pre>>

NextHealth ==
    \/ HealthMonitor
    \/ HealthMonitorCrash

SpecHealth == Init /\ [][NextHealth]_vars

-----------------------------------------------------------------------------
(* Specification SpecOrchestrator: one maintenance run. The log is empty:  *)
(* log_analyzer.py and query_popularity_report.py find no rows and return  *)
(* at once, so the steps that run them leave the store as it is.           *)

MaxSkip == 2
MaxFailures == 2

\* the parsed --skip list: up to MaxSkip names of the mode's steps
SkipLists(mode) ==
    {sl \in SUBSET Range(MAINTENANCE_STEPS[mode]) : Cardinality(sl) <= MaxSkip}

\* what a health monitor run of the orchestrator may come to: healthy,
\* degraded, critical, or no report
MonitorRuns ==
    {HealthReport(<<"pass", "pass", "pass", "pass", "skipped">>),
     HealthReport(<<"pass", "pass", "warn", "pass", "skipped">>),
     HealthReport(<<"pass", "fail", "pass", "pass", "skipped">>),
     HealthCrash}

\* the records of the catalogue that were never enriched when the run starts
Backlog == 2

\* json.dump(report, f) by a monitor run that counted never_enriched records
\* (step_content_freshness); written tells the file of this run from an
\* older one
MeasuredFile(report, never_enriched, written) ==
    [status |-> "written", overall_status |-> report.overall_status,
     steps |-> report.steps, never_enriched |-> never_enriched,
     written |-> written]

\* the file an earlier run may have left behind
StaleFiles ==
    {NoFile,
     MeasuredFile(HealthReport(<<"pass", "fail", "pass", "pass", "skipped">>),
                  Backlog + 1, "earlier run")}

InitOrchestrator ==
    /\ ResolverIdle
    /\ logs = <<>>
    /\ popularity_ranking = <<>>
    /\ content_gaps = <<>>
    /\ unmapped_terms = <<>>
    /\ pc = "idle"
    /\ query_clusters = NoResult
    /\ competitor_intelligence = NoResult
    /\ metrics = NoResult
    /\ orch = NoRun
    /\ health_pre \in StaleFiles
    /\ health_report = NoResult
    /\ all_results = NoResult
    /\ enrich = NoRun
    /\ marketing_content = NoContent
    /\ completion_service = NoService
    /\ ai_report = NoResult
    /\ health_post = NoFile

\* the number of steps so far that returned success = False
Failures(results) ==
    Cardinality({i \in DOMAIN results :
                    results[i].type = "dict" /\ ~results[i].value.success})

\* main with DATABASE_URL set, and run_maintenance up to its loop: mode,
\* skip filter; args.dry_run and the OPENAI_API_KEY of the environment are
\* kept for the steps
Start(mode, skip_list, stop_on_error, dry_run, openai_api_key) ==
    /\ orch = NoRun
    /\ orch' = [phase |-> "running",
                mode |-> mode,
                skip_list |-> skip_list,
                stop_on_error |-> stop_on_error,
                dry_run |-> dry_run,
                openai_api_key |-> openai_api_key,
                steps_to_run |-> StepsToRun(mode, skip_list),
                step_num |-> 0,
                results |-> <<>>]
    /\ UNCHANGED <<toolVars, terminology_map, last_insert, terminology_trace,
                   auto_fix, logs, popularity_ranking, content_gaps,
                   unmapped_terms, pc, sectionVars, health_pre,
                   health_report>>

\* a run without --dry-run, with both credentials in the environment
StartMaintenance ==
    \E mode \in Modes, stop_on_error \in BOOLEAN :
        \E skip_list \in SkipLists(mode) :
            Start(mode, skip_list, stop_on_error, FALSE, TRUE)

\* the step the loop is at
StepName == orch.steps_to_run[orch.step_num + 1]

\* one pass of the loop of run_maintenance, given the step's result: the
\* result is recorded, the gate is evaluated, the loop breaks or goes on
Recorded(result) ==
    LET halts == Halts(StepName, result, orch.stop_on_error)
        recorded == Append(orch.results, StepEntry(StepName, result))
    IN  /\ Failures(recorded) <= MaxFailures
        /\ orch' = [orch EXCEPT
               !.step_num = @ + 1,
               !.results = IF halts
                           THEN Append(recorded, StoppedAtEntry(StepName))
                           ELSE recorded,
               !.phase = IF halts \/ orch.step_num + 1 = Len(orch.steps_to_run)
                         THEN "finished" ELSE "running"]

Looping == orch.phase = "running" /\ orch.step_num < Len(orch.steps_to_run)

\* whether the enrichment step of this run has enriched a record
Enriched(results, dry_run) ==
    /\ ~dry_run
    /\ \E i \in DOMAIN results :
           /\ results[i].key = "enrichment"
           /\ results[i].type = "dict"
           /\ results[i].value.success

\* what step_content_freshness of a monitor counts at this point of the run
NeverEnriched(results, dry_run) ==
    IF Enriched(results, dry_run) THEN Backlog - 1 ELSE Backlog

\* the --output file after a monitor run: a crashed run leaves it as it was
FileAfter(run, file, results, dry_run) ==
    IF run = HealthCrash THEN file
    ELSE MeasuredFile(run, NeverEnriched(results, dry_run), "this run")

\* the pass for health_check_pre: the monitor runs with --output
\* /tmp/health_pre.json, and the file is read back
RunHealthCheckPre ==
    /\ Looping
    /\ StepName = "health_check_pre"
    /\ \E run \in MonitorRuns :
        \E file \in {FileAfter(run, health_pre, orch.results, orch.dry_run)} :
            /\ health_pre' = file
            /\ Recorded(step_health_check_pre(run.exit_code, file))
            /\ UNCHANGED <<toolVars, terminology_map, last_insert, terminology_trace,
                           auto_fix, logs, popularity_ranking, content_gaps,
                           unmapped_terms, pc, sectionVars, health_report>>

\* the scripts that exit 1 at once when OPENAI_API_KEY is not set
NeedsOpenAI == {"log_analysis", "enrichment"}

\* the terminology suggestions a run of either analyzer may come to
MaintenanceBatches == SeqsUpTo(SuggestionPool, 0, 1)

\* the pass for a step that runs one script and returns its success
\* (enrich_deep.py, audit_content_tags.py and import_orchestrator.py get
\* --dry-run when the run has it)
RunScriptStep ==
    \E success \in BOOLEAN :
        /\ Looping
        /\ StepName \in {"enrichment", "content_audit", "import_all"}
        /\ (StepName \in NeedsOpenAI /\ ~orch.openai_api_key) => ~success
        /\ Recorded([success |-> success])
        /\ UNCHANGED <<toolVars, terminology_map, last_insert, terminology_trace,
                       auto_fix, logs, popularity_ranking, content_gaps,
                       unmapped_terms, pc, sectionVars, health_pre,
                       health_report>>

\* the pass for a step that runs an analyzer: the command line never has
\* --dry-run, so a run that gets through a log with rows saves its report
\* and inserts its suggestions
RunAnalyzerStep(step_name, op) ==
    \E success \in BOOLEAN :
        \E batch \in IF success /\ logs # <<>> THEN MaintenanceBatches
                     ELSE {<<>>} :
            \E r \in {insert_terminology_suggestions(terminology_map, batch,
                                                      FALSE)} :
                /\ Looping
                /\ StepName = step_name
                /\ (step_name \in NeedsOpenAI /\ ~orch.openai_api_key)
                       => ~success
                /\ Recorded([success |-> success])
                /\ IF success /\ logs # <<>>
                   THEN /\ terminology_map' = r.table
                        /\ last_insert' = [op |-> op,
                                           returned |-> r.returned,
                                           dry_run |-> FALSE,
                                           reports |-> save_report_to_db(FALSE)]
                   ELSE UNCHANGED <<terminology_map, last_insert>>
                /\ UNCHANGED <<toolVars, terminology_trace,
                               auto_fix, logs, popularity_ranking, content_gaps,
                               unmapped_terms, pc, sectionVars, health_pre,
                               health_report>>

\* step_log_analysis: log_analyzer.py --days 1 --auto-suggest-terms
RunLogAnalysis == RunAnalyzerStep("log_analysis", "log_analyzer")

\* step_content_gaps: query_popularity_report.py --days 7 --output ...
RunContentGaps == RunAnalyzerStep("content_gaps", "analyzer")

\* the pass for tag_hygiene: two scripts, success if both succeed
RunTagHygiene ==
    \E improver \in BOOLEAN, format \in BOOLEAN :
        /\ Looping
        /\ StepName = "tag_hygiene"
        /\ Recorded([success |-> improver /\ format,
                     sub_results |-> [improver |-> improver, format |-> format]])
        /\ UNCHANGED <<toolVars, terminology_map, last_insert, terminology_trace,
                       auto_fix, logs, popularity_ranking, content_gaps,
                       unmapped_terms, pc, sectionVars, health_pre,
                       health_report>>

\* the delta of step_health_check_post: computed when both files load
\* (zero_result_rate_change, computed the same way from query_quality, is
\* left out)
Delta(pre_file, post_file) ==
    IF pre_file # NoFile /\ post_file # NoFile
    THEN [k \in {"never_enriched_change"} |->
              post_file.never_enriched - pre_file.never_enriched]
    ELSE [k \in {} |-> 0]

\* a delta taken from the file of this run only
DeltaOfThisRun(pre_file, post_file) ==
    IF pre_file # NoFile /\ post_file # NoFile
           /\ pre_file.written = "this run" /\ post_file.written = "this run"
    THEN [k \in {"never_enriched_change"} |->
              post_file.never_enriched - pre_file.never_enriched]
    ELSE [k \in {} |-> 0]

\* step_health_check_post: the result built from the monitor's exit code and
\* from the two files as they are after the monitor ran
step_health_check_post(exit_code, pre_file, post_file) ==
    [success |-> exit_code = 0,
     health_status_post |-> FileStatus(post_file),
     delta |-> Delta(pre_file, post_file)]

\* the pass for health_check_post: the monitor runs with --output
\* /tmp/health_post.json, and both files are read back
RunHealthCheckPost ==
    /\ Looping
    /\ StepName = "health_check_post"
    /\ \E run \in MonitorRuns :
        \E file \in {FileAfter(run, health_post, orch.results, orch.dry_run)} :
            /\ health_post' = file
            /\ Recorded(step_health_check_post(run.exit_code, health_pre, file))
            /\ UNCHANGED <<all_results, enrich, marketing_content,
                           completion_service, ai_report, terminology_map, last_insert, terminology_trace,
                           auto_fix, logs, popularity_ranking, content_gaps,
                           unmapped_terms, pc, sectionVars, health_pre,
                           health_report>>

\* main after run_maintenance: the report is built and printed; the process
\* ends with the traceback of print_maintenance_report or with its exit code
MaintenanceReport ==
    /\ orch.phase = "finished"
    /\ orch' = IF PrintRaises(orch.results)
               THEN [orch EXCEPT !.phase = "crashed"]
               ELSE [phase |-> "reported",
                     mode |-> orch.mode,
                     skip_list |-> orch.skip_list,
                     stop_on_error |-> orch.stop_on_error,
                     dry_run |-> orch.dry_run,
                     openai_api_key |-> orch.openai_api_key,
                     steps_to_run |-> orch.steps_to_run,
                     step_num |-> orch.step_num,
                     results |-> orch.results,
                     report |-> [mode |-> orch.mode,
                                 results |-> orch.results,
                                 stopped_at |-> StoppedAt(orch.results)],
                     exit_code |-> IF StoppedAt(orch.results) # "None"
                                   THEN 1 ELSE 0]
    /\ UNCHANGED <<toolVars, terminology_map, last_insert, terminology_trace, auto_fix,
                   logs, popularity_ranking, content_gaps, unmapped_terms, pc,
                   sectionVars, health_pre, health_report>>

NextOrchestrator ==
    \/ StartMaintenance
    \/ RunHealthCheckPre
    \/ RunScriptStep
    \/ RunLogAnalysis
    \/ RunContentGaps
    \/ RunTagHygiene
    \/ RunHealthCheckPost
    \/ MaintenanceReport

SpecOrchestrator == InitOrchestrator /\ [][NextOrchestrator]_vars

-----------------------------------------------------------------------------
(* The sections of the analyzer's report that use the completion service   *)
(* (query_popularity_report.py): 2B, 4 part B and the executive summary.   *)
(* A text of the report is the sequence of its sentences, a sentence the   *)
(* record of the figures it prints.                                        *)

\* get_openai_client: a client, unless the package or the key is missing
get_openai_client(service) == service.client = "client"

\* generate_ai_content_recommendations(gaps, content_inventory, client)
generate_ai_content_recommendations(gaps, service) ==
    IF ~get_openai_client(service) THEN <<>>
    ELSE IF gaps = <<>> THEN <<>>
    ELSE IF service.recommendations.kind = "json"
         THEN service.recommendations.value
         ELSE <<>>

\* generate_terminology_suggestions, part B: result['ai_suggestions']
AiSuggestions(mined, existing_mappings, service) ==
    IF ~get_openai_client(service) THEN <<>>
    ELSE IF mined = <<>> THEN <<>>
    ELSE IF service.suggestions.kind = "json"
         THEN FilterSuggestions(service.suggestions.value, mined,
                                existing_mappings)
         ELSE <<>>

RECURSIVE DetectedStates(_, _)
\* the states of the log in the order generate_state_coverage meets them
DetectedStates(logrows, i) ==
    IF i > Len(logrows) THEN <<>>
    ELSE logrows[i].detected_states \o DetectedStates(logrows, i + 1)

\* one entry of generate_state_coverage, for the hits <<row, position>>
StateEntry(state, hits, logrows) ==
    LET recs == SumSeq([i \in DOMAIN logrows |->
                           Cardinality({h \in hits : h[1] = i})
                               * logrows[i].recommendations_count])
        avg_recs == RoundDiv(recs * 100, Cardinality(hits))
    IN  [state |-> state,
         query_count |-> Cardinality(hits),
         unique_queries |->
             Cardinality({QueriesLower(logrows)[h[1]] : h \in hits}),
         avg_recommendations |-> avg_recs,
         coverage_rating |-> IF avg_recs >= 300 THEN "good"
                             ELSE IF avg_recs >= 100 THEN "fair" ELSE "poor"]

\* generate_state_coverage(logs)['states']
generate_state_coverage(logrows) ==
    WithValue(FirstOccurrences(DetectedStates(logrows, 1)), LAMBDA names :
        LET hitsOf(state) ==
                {h \in StateHits(logrows) :
                    logrows[h[1]].detected_states[h[2]] = state}
            sorted == SortByCountDesc(
                [i \in DOMAIN names |->
                    [count |-> Cardinality(hitsOf(names[i])),
                     entry |-> StateEntry(names[i], hitsOf(names[i]),
                                          logrows)]])
        IN  [i \in DOMAIN sorted |-> sorted[i].entry])

\* the sentences of basic_summary
BasicSummary(report_data) ==
    LET popularity == report_data.popularity_ranking
        high_gaps == {i \in DOMAIN report_data.content_gaps :
                         report_data.content_gaps[i].gap_severity = "high"}
        competitors == report_data.competitor_intelligence.competitors
        states == report_data.state_coverage
    IN  <<[sentence |-> "Analyzed",
           total_logs |-> report_data.metrics.total_logs]>>
        \o (IF popularity # <<>>
            THEN <<[sentence |-> "Top searches",
                    top3 |-> [i \in 1..Min(3, Len(popularity)) |->
                                 [query |-> popularity[i].query,
                                  count |-> popularity[i].count]]]>>
            ELSE <<>>)
        \o (IF high_gaps # {}
            THEN <<[sentence |-> "HIGH priority content gaps",
                    count |-> Cardinality(high_gaps)]>>
            ELSE <<>>)
        \o (IF competitors # <<>>
            THEN <<[sentence |-> "Most asked competitor",
                    name |-> competitors[1].name,
                    mention_count |-> competitors[1].mention_count]>>
            ELSE <<>>)
        \o (IF states # <<>>
            THEN <<[sentence |-> "Most searched state",
                    state |-> states[1].state,
                    query_count |-> states[1].query_count]>>
            ELSE <<>>)

\* a summary that is empty when the call fails
SummaryOrNothing(report_data, service) ==
    IF ~get_openai_client(service) THEN BasicSummary(report_data)
    ELSE IF service.summary.kind = "text" THEN service.summary.content
    ELSE <<>>

\* generate_executive_summary(report_data, openai_client)
generate_executive_summary(report_data, service) ==
    IF ~get_openai_client(service) THEN BasicSummary(report_data)
    ELSE IF service.summary.kind = "text" THEN service.summary.content
    ELSE BasicSummary(report_data)

\* main: the sections the executive summary reads
ReportData(logrows) ==
    WithValue(generate_popularity_ranking(logrows), LAMBDA popularity :
        [metrics |-> Metrics(logrows),
         popularity_ranking |-> popularity,
         content_gaps |->
             generate_content_gap_analysis(popularity, ContentInventory),
         competitor_intelligence |-> generate_competitor_intelligence(logrows),
         state_coverage |-> generate_state_coverage(logrows)])

-----------------------------------------------------------------------------
(* Specification SpecSummary: one analyzer run over a fetched log, for     *)
(* every behaviour of the completion service.                              *)

\* rows of ai_prompt_logs: a query asked with and without results, a
\* competitor query, a query with a detected state
SummaryRows ==
    {[query |-> Q_FAFSA_checklist, recommendations_count |-> 0,
      detected_states |-> <<>>],
     [query |-> Q_fafsa_checklist_sp, recommendations_count |-> 3,
      detected_states |-> <<>>],
     [query |-> Q_naviance_vs_xello, recommendations_count |-> 0,
      detected_states |-> <<>>],
     [query |-> Q_hello, recommendations_count |-> 0,
      detected_states |-> <<"TX">>]}

\* a call of the service raises, replies with text that is no JSON, or
\* replies with JSON
RecommendationReplies ==
    {[kind |-> "raises"], [kind |-> "not_json"],
     [kind |-> "json",
      value |-> <<[gap_query |-> N_fafsa_checklist,
                   content_type |-> T_1_Pager]>>]}

TerminologyReplies ==
    {[kind |-> "raises"], [kind |-> "not_json"],
     [kind |-> "json",
      value |-> <<[map_type |-> "content_type", user_term |-> T_checklist,
                   canonical_term |-> T_Ebook, confidence |-> 50]>>]}

SummaryReplies ==
    {[kind |-> "raises"],
     [kind |-> "text", content |-> <<[sentence |-> "Key Findings"]>>]}

ServiceBehaviours ==
    {[client |-> c] : c \in {"no_package", "no_key"}}
        \cup {[client |-> "client", recommendations |-> r, suggestions |-> t,
               summary |-> e] :
                 r \in RecommendationReplies, t \in TerminologyReplies,
                 e \in SummaryReplies}

InitSummary ==
    /\ ResolverIdle
    /\ logs \in SeqsUpTo(SummaryRows, 1, MaxLogs)
    /\ popularity_ranking = <<>>
    /\ content_gaps = <<>>
    /\ unmapped_terms = <<>>
    /\ pc = "idle"
    /\ query_clusters = NoResult
    /\ competitor_intelligence = NoResult
    /\ metrics = NoResult
    /\ orch = NoRun
    /\ health_pre = NoFile
    /\ health_report = NoResult
    /\ all_results = NoResult
    /\ enrich = NoRun
    /\ marketing_content = NoContent
    /\ completion_service \in ServiceBehaviours
    /\ ai_report = NoResult
    /\ health_post = NoFile

\* main: sections 2B and 4 and the executive summary of the report
AnalyzeWithService ==
    \E report_data \in {ReportData(logs)},
       mappings \in {fetch_terminology_mappings(terminology_map)} :
        \E mined \in {generate_terminology_suggestions(logs, mappings)} :
            /\ ai_report = NoResult
            /\ ai_report' =
                   [status |-> "reported",
                    ai_content_recommendations |->
                        generate_ai_content_recommendations(
                            report_data.content_gaps, completion_service),
                    terminology_suggestions |->
                        [unmapped_terms |-> mined,
                         ai_suggestions |->
                             AiSuggestions(mined, mappings,
                                           completion_service)],
                    executive_summary |->
                        generate_executive_summary(report_data,
                                                   completion_service)]
            /\ UNCHANGED <<enrich, marketing_content, completion_service,
                           health_post, all_results, sectionVars, maintenanceVars,
                           terminology_map, last_insert, terminology_trace,
                           auto_fix, logs, popularity_ranking, content_gaps,
                           unmapped_terms, pc>>

NextSummary == AnalyzeWithService

SpecSummary == InitSummary /\ [][NextSummary]_vars

-----------------------------------------------------------------------------
(* The resolver's steps 1 and 4 (diagnose_search.py): the live search and   *)
(* the scan for missed content. A content item is its id; the catalogue    *)
(* gives, for the query of the run, the ranked answer of                   *)
(* search_marketing_content and the set of rows the LIKE pattern matches.  *)

SearchLimit == 20
ResultsKept == 10
MissedLimit == 10
MissedListed == 5

\* the rows of the live search: SELECT ... FROM search_marketing_content
\* LIMIT 20
LiveResults(content) ==
    SubSeq(content.ranked, 1, Min(SearchLimit, Len(content.ranked)))

\* step_execute_query: result_count counts the rows fetched, results keeps
\* results[:10]
step_execute_query(content) ==
    [result_count |-> Len(LiveResults(content)),
     results |-> SubSeq(LiveResults(content), 1,
                        Min(ResultsKept, Len(LiveResults(content))))]

\* what a SELECT without ORDER BY may return under LIMIT k, and what the
\* first k entries of a list in that order may be: any k of the rows
Limit(rows, k) ==
    {some \in SUBSET rows : Cardinality(some) = Min(k, Cardinality(rows))}

\* step_find_missed_content(conn, query, tokens, results): the results it
\* may return
step_find_missed_content(content, results) ==
    {[missed_count |-> Cardinality(missed), missed_content |-> listed] :
        <<missed, listed>> \in
            UNION {{<<rows, l>> : l \in Limit(rows, MissedListed)} :
                      rows \in Limit(content.matching \ Range(results),
                                     MissedLimit)}}

-----------------------------------------------------------------------------
(* Specification SpecMissed: steps 1 and 4 of one resolver run over a      *)
(* catalogue of MaxContent items.                                          *)

MaxContent == 11

\* the catalogue as the query sees it: the search function ranks the items
\* 1..n in this order, the pattern matches the items lo..hi
ContentInputs ==
    {[ranked |-> [i \in 1..n |-> i], matching |-> lo..hi] :
        n \in 0..MaxContent, lo \in 1..MaxContent, hi \in 0..MaxContent}

InitMissed ==
    /\ ResolverIdle
    /\ logs = <<>>
    /\ popularity_ranking = <<>>
    /\ content_gaps = <<>>
    /\ unmapped_terms = <<>>
    /\ pc = "idle"
    /\ query_clusters = NoResult
    /\ competitor_intelligence = NoResult
    /\ metrics = NoResult
    /\ orch = NoRun
    /\ health_pre = NoFile
    /\ health_report = NoResult
    /\ all_results = NoResult
    /\ enrich = NoRun
    /\ marketing_content \in ContentInputs
    /\ completion_service = NoService
    /\ ai_report = NoResult
    /\ health_post = NoFile

\* diagnose_query, step 1
ExecuteQuery ==
    /\ all_results = NoResult
    /\ all_results' = [status |-> "step 1",
                       query_execution |-> step_execute_query(marketing_content)]
    /\ UNCHANGED <<sideVars, sectionVars, maintenanceVars, terminology_map,
                   last_insert, terminology_trace, auto_fix, logs,
                   popularity_ranking, content_gaps, unmapped_terms, pc>>

\* diagnose_query, step 4
FindMissedContent ==
    /\ all_results.status = "step 1"
    /\ \E mc \in step_find_missed_content(marketing_content,
                     all_results.query_execution.results) :
           all_results' = [status |-> "step 4",
                           query_execution |-> all_results.query_execution,
                           missed_content |-> mc]
    /\ UNCHANGED <<sideVars, sectionVars, maintenanceVars, terminology_map,
                   last_insert, terminology_trace, auto_fix, logs,
                   popularity_ranking, content_gaps, unmapped_terms, pc>>

NextMissed ==
    \/ ExecuteQuery
    \/ FindMissedContent

SpecMissed == InitMissed /\ [][NextMissed]_vars

-----------------------------------------------------------------------------
(* Specification SpecMaintenance: one maintenance run in any environment:  *)
(* with or without --dry-run, with or without DATABASE_URL and             *)
(* OPENAI_API_KEY, over an empty log or a log with rows, and with the      *)
(* health files earlier runs may have left in /tmp.                        *)

\* the --skip lists of these runs
RunSkipLists == {{}, {"health_check_pre"}}

\* the search log the analyzers of the run find
RunLogs ==
    {<<>>,
     <<[query |-> Q_hello, recommendations_count |-> 0,
        detected_states |-> <<>>]>>}

InitMaintenance ==
    /\ ResolverIdle
    /\ logs \in RunLogs
    /\ popularity_ranking = <<>>
    /\ content_gaps = <<>>
    /\ unmapped_terms = <<>>
    /\ pc = "idle"
    /\ query_clusters = NoResult
    /\ competitor_intelligence = NoResult
    /\ metrics = NoResult
    /\ orch = NoRun
    /\ health_pre \in StaleFiles
    /\ health_report = NoResult
    /\ all_results = NoResult
    /\ enrich = NoRun
    /\ marketing_content = NoContent
    /\ completion_service = NoService
    /\ ai_report = NoResult
    /\ health_post \in StaleFiles

\* main with DATABASE_URL set, whatever else the environment holds
StartRun ==
    \E mode \in Modes, skip_list \in RunSkipLists, stop_on_error \in BOOLEAN,
       dry_run \in BOOLEAN, openai_api_key \in BOOLEAN :
        Start(mode, skip_list, stop_on_error, dry_run, openai_api_key)

\* main without DATABASE_URL: the error is printed and the process exits 1
\* before run_maintenance
MaintenanceAbort ==
    /\ orch = NoRun
    /\ orch' = [phase |-> "aborted", exit_code |-> 1]
    /\ UNCHANGED <<toolVars, terminology_map, last_insert, terminology_trace,
                   auto_fix, logs, popularity_ranking, content_gaps,
                   unmapped_terms, pc, sectionVars, health_pre,
                   health_report>>

NextMaintenance ==
    \/ StartRun
    \/ MaintenanceAbort
    \/ RunHealthCheckPre
    \/ RunScriptStep
    \/ RunLogAnalysis
    \/ RunContentGaps
    \/ RunTagHygiene
    \/ RunHealthCheckPost
    \/ MaintenanceReport

SpecMaintenance == InitMaintenance /\ [][NextMaintenance]_vars

-----------------------------------------------------------------------------
(* The parallel enrichment (enrich_content_parallel.py): main submits one  *)
(* process_record task per fetched record to a pool of worker threads.     *)
(* A task is followed through the points at which another thread can run   *)
(* in between: taking a connection, the load of a counter's `+= 1` once    *)
(* `with lock:` is entered, its store, and the work on the record. The     *)
(* commits of the run are kept as a bag of the sets of records they cover. *)

MaxRecords == 3
MaxWorkers == 2

\* how process_record ends for a record
\* (an exception is raised before the UPDATE, or by the commit after it)
Outcomes ==
    {"no_url", "no_content", "ai_error", "enriched", "exception",
     "commit_fails"}

\* the outcomes that UPDATE the record's row and commit
Committing == {"no_content", "ai_error", "enriched"}

\* a lock that lets every thread in
LockIgnored(holder) == TRUE

\* `with lock:` is entered when no thread holds the lock
LockFree(holder) == holder = 0

\* the tasks a worker thread is running
Active(run) ==
    {id \in DOMAIN run.task : run.task[id].pc \notin {"queued", "done"}}

\* get_db_connection: a connection of the pool no other task holds (the
\* pool has workers + 2 connections, the tasks in flight at most workers)
FreeConnection(run) ==
    CHOOSE c \in 1..(run.workers + 2) :
        /\ \A id \in DOMAIN run.task : run.task[id].conn # c
        /\ \A d \in 1..(c - 1) : \E id \in DOMAIN run.task : run.task[id].conn = d

\* the counter process_record increments at its end
CounterOf(outcome) ==
    IF outcome = "enriched" THEN "success_count" ELSE "error_count"

\* the counter a task is at
CounterAt(t) ==
    IF t.pc = "lock_processed" THEN "processed_count"
    ELSE CounterOf(t.outcome)

\* the state of enrich other than the run itself
restOfEnrich ==
    <<all_results, marketing_content, completion_service, ai_report,
      health_post, terminology_map, last_insert, terminology_trace, auto_fix,
      logs, popularity_ranking, content_gaps, unmapped_terms, pc, sectionVars,
      maintenanceVars>>

-----------------------------------------------------------------------------
(* Specification SpecEnrich: one run of the parallel enrichment over up to *)
(* MaxRecords records with up to MaxWorkers worker threads, under every    *)
(* interleaving of the threads.                                            *)

InitEnrich ==
    /\ ResolverIdle
    /\ logs = <<>>
    /\ popularity_ranking = <<>>
    /\ content_gaps = <<>>
    /\ unmapped_terms = <<>>
    /\ pc = "idle"
    /\ query_clusters = NoResult
    /\ competitor_intelligence = NoResult
    /\ metrics = NoResult
    /\ orch = NoRun
    /\ health_pre = NoFile
    /\ health_report = NoResult
    /\ all_results = NoResult
    /\ enrich = NoRun
    /\ marketing_content = NoContent
    /\ completion_service = NoService
    /\ ai_report = NoResult
    /\ health_post = NoFile

\* main up to executor.submit: the counters are 0, every record is queued
StartEnrichment ==
    \E total \in 1..MaxRecords, workers \in 1..MaxWorkers :
        /\ enrich = NoRun
        /\ enrich' = [phase |-> "running",
                      total |-> total,
                      workers |-> workers,
                      lock |-> 0,
                      processed_count |-> 0,
                      success_count |-> 0,
                      error_count |-> 0,
                      task |-> [id \in 1..total |->
                                   [pc |-> "queued", conn |-> 0, tmp |-> 0,
                                    outcome |-> "none", runs |-> 0]],
                      pending |-> [c \in 1..(workers + 2) |-> {}],
                      committed |-> EmptyBag]
        /\ UNCHANGED restOfEnrich

Running == enrich # NoRun /\ enrich.phase = "running"

\* a free worker thread takes the next task of the queue; process_record
\* takes its connection
TaskBegin(id) ==
    /\ Running
    /\ id \in DOMAIN enrich.task
    /\ enrich.task[id].pc = "queued"
    /\ \A earlier \in 1..(id - 1) : enrich.task[earlier].pc # "queued"
    /\ Cardinality(Active(enrich)) < enrich.workers
    /\ enrich' = [enrich EXCEPT
           !.task[id].pc = "lock_processed",
           !.task[id].conn = FreeConnection(enrich)]
    /\ UNCHANGED restOfEnrich

\* `with lock:` before processed_count += 1 and before the final count: the
\* block is entered and the counter is loaded
LockAcquire(id) ==
    /\ Running
    /\ id \in DOMAIN enrich.task
    /\ enrich.task[id].pc \in {"lock_processed", "lock_count"}
    /\ LockFree(enrich.lock)
    /\ enrich' = [enrich EXCEPT
           !.lock = id,
           !.task[id].tmp = enrich[CounterAt(enrich.task[id])],
           !.task[id].pc = IF @ = "lock_processed" THEN "store_processed"
                           ELSE "store_count"]
    /\ UNCHANGED restOfEnrich

\* the store of processed_count += 1, and the end of the with block
ProcessedStore(id) ==
    /\ Running
    /\ id \in DOMAIN enrich.task
    /\ enrich.task[id].pc = "store_processed"
    /\ enrich' = [enrich EXCEPT
           !.processed_count = enrich.task[id].tmp + 1,
           !.lock = 0,
           !.task[id].tmp = 0,
           !.task[id].pc = "work"]
    /\ UNCHANGED restOfEnrich

\* process_record between the two counts: the record comes to one of its
\* outcomes; three of them UPDATE its row on the task's connection and
\* commit that connection
Work(id) ==
    \E outcome \in Outcomes :
        /\ Running
        /\ id \in DOMAIN enrich.task
        /\ enrich.task[id].pc = "work"
        /\ enrich' = [enrich EXCEPT
               !.task[id].outcome = outcome,
               !.task[id].runs = @ + 1,
               !.task[id].pc = "lock_count",
               !.committed =
                   IF outcome \in Committing
                   THEN @ (+) SetToBag({enrich.pending[enrich.task[id].conn]
                                            \cup {id}})
                   ELSE @,
               !.pending[enrich.task[id].conn] =
                   IF outcome = "commit_fails" THEN @ \cup {id} ELSE {}]
        /\ UNCHANGED restOfEnrich

\* the store of success_count += 1 or error_count += 1, the end of the with
\* block, and the finally clause: the connection goes back to the pool,
\* whose putconn rolls back a transaction left open
CountStore(id) ==
    /\ Running
    /\ id \in DOMAIN enrich.task
    /\ enrich.task[id].pc = "store_count"
    /\ enrich' = [enrich EXCEPT
           ![CounterOf(enrich.task[id].outcome)] = enrich.task[id].tmp + 1,
           !.lock = 0,
           !.pending[enrich.task[id].conn] = {},
           !.task[id].tmp = 0,
           !.task[id].conn = 0,
           !.task[id].pc = "done"]
    /\ UNCHANGED restOfEnrich

\* the with block of the executor ends when every future is done
PoolFinished ==
    /\ Running
    /\ \A id \in DOMAIN enrich.task : enrich.task[id].pc = "done"
    /\ enrich' = [enrich EXCEPT !.phase = "finished"]
    /\ UNCHANGED restOfEnrich

NextEnrich ==
    \/ StartEnrichment
    \/ \E id \in 1..MaxRecords : TaskBegin(id)
    \/ \E id \in 1..MaxRecords : LockAcquire(id)
    \/ \E id \in 1..MaxRecords : ProcessedStore(id)
    \/ \E id \in 1..MaxRecords : Work(id)
    \/ \E id \in 1..MaxRecords : CountStore(id)
    \/ PoolFinished

SpecEnrich == InitEnrich /\ [][NextEnrich]_vars

-----------------------------------------------------------------------------
(* Claims about the analyzer.                                              *)

GapsOf(query_text) ==
    {j \in DOMAIN content_gaps : content_gaps[j].query = query_text}

SeveritiesOf(query_text) ==
    {content_gaps[j].gap_severity : j \in GapsOf(query_text)}

\* C6: every popularity group with count >= 2 falls into exactly one class:
\* average 0 gives high, an average above 0 and below 2 gives medium, any
\* other average gives low when fewer than 3 items match and count >= 3, and
\* otherwise the group is not a gap; a group with count < 2 is never a gap;
\* every gap is a group of the ranking.
C6_SeverityClasses ==
    pc = "gaps" =>
        /\ \A i \in DOMAIN popularity_ranking :
             LET e == popularity_ranking[i]
                 avg == e.avg_recommendations
                 matches == ContentMatches(e.query, ContentTexts(ContentInventory))
                 lowcase == matches < 3 /\ e.count >= 3
             IN  /\ Cardinality(GapsOf(e.query)) <= 1
                 /\ e.count < 2 => GapsOf(e.query) = {}
                 /\ (e.count >= 2 /\ avg = 0) => SeveritiesOf(e.query) = {"high"}
                 /\ (e.count >= 2 /\ avg > 0 /\ avg < 200)
                        => SeveritiesOf(e.query) = {"medium"}
                 /\ (e.count >= 2 /\ avg >= 200 /\ lowcase)
                        => SeveritiesOf(e.query) = {"low"}
                 /\ (e.count >= 2 /\ avg >= 200 /\ ~lowcase)
                        => GapsOf(e.query) = {}
        /\ \A j \in DOMAIN content_gaps :
             \E i \in DOMAIN popularity_ranking :
                 /\ popularity_ranking[i].query = content_gaps[j].query
                 /\ popularity_ranking[i].count = content_gaps[j].search_count

\* a low gap next to a group that is left out: it returns results and was
\* searched twice only
C6_Witness ==
    /\ pc = "gaps"
    /\ Len(popularity_ranking) = 2
    /\ popularity_ranking[2].count = 2
    /\ Len(content_gaps) = 1
    /\ content_gaps[1].gap_severity = "low"
    /\ content_gaps[1].query = popularity_ranking[1].query

\* C7 as stated: gap_score is strictly increasing in count for a fixed
\* average and strictly decreasing in the average for a fixed count.
C7_StrictlyMonotone ==
    \A i, j \in DOMAIN content_gaps :
        LET g == content_gaps[i]
            h == content_gaps[j]
        IN  /\ (g.avg_recommendations = h.avg_recommendations
                    /\ g.search_count < h.search_count)
                   => g.gap_score < h.gap_score
            /\ (g.search_count = h.search_count
                    /\ g.avg_recommendations < h.avg_recommendations)
                   => g.gap_score > h.gap_score

\* C7: the reported gap_score is strictly increasing in count for a fixed
\* average up to 99.9, and never increases with the average for a fixed
\* count (after rounding to two decimals two averages can share a score).
C7_MonotoneRounded ==
    \A i, j \in DOMAIN content_gaps :
        LET g == content_gaps[i]
            h == content_gaps[j]
        IN  /\ (g.avg_recommendations = h.avg_recommendations
                    /\ g.avg_recommendations <= 9990
                    /\ g.search_count < h.search_count)
                   => g.gap_score < h.gap_score
            /\ (g.search_count = h.search_count
                    /\ g.avg_recommendations < h.avg_recommendations)
                   => g.gap_score >= h.gap_score

\* two gaps with the same count and different averages share a score, and
\* two gaps with the same average and different counts are present elsewhere
C7_Witness ==
    /\ pc = "gaps"
    /\ Len(content_gaps) = 2
    /\ content_gaps[1].search_count = content_gaps[2].search_count
    /\ content_gaps[1].avg_recommendations # content_gaps[2].avg_recommendations
    /\ content_gaps[1].gap_score = content_gaps[2].gap_score

\* C8 as stated: every gap with average 0 is of severity high and precedes
\* every gap with an average above 0.
C8_ZeroResultFirst ==
    \A i, j \in DOMAIN content_gaps :
        /\ content_gaps[i].avg_recommendations = 0
               => content_gaps[i].gap_severity = "high"
        /\ (content_gaps[i].avg_recommendations = 0
                /\ content_gaps[j].avg_recommendations > 0)
               => i < j

\* C8: every gap with average 0 is of severity high and precedes every gap
\* with an average above 0 that was not searched more often.
C8_ZeroResultFirstAtEqualCount ==
    \A i, j \in DOMAIN content_gaps :
        /\ content_gaps[i].avg_recommendations = 0
               => content_gaps[i].gap_severity = "high"
        /\ (content_gaps[i].avg_recommendations = 0
                /\ content_gaps[j].avg_recommendations > 0
                /\ content_gaps[j].search_count <= content_gaps[i].search_count)
               => i < j

\* "fafsa checklist" searched 5 times without a result, nothing in the
\* inventory matching it, ranked before a gap with results
C8_Witness ==
    /\ pc = "gaps"
    /\ Len(content_gaps) = 2
    /\ content_gaps[1].query = N_fafsa_checklist
    /\ content_gaps[1].search_count = 5
    /\ content_gaps[1].avg_recommendations = 0
    /\ content_gaps[1].content_matches_found = 0
    /\ content_gaps[1].gap_severity = "high"
    /\ content_gaps[2].search_count = 5
    /\ content_gaps[2].avg_recommendations > 0

\* the trimmed, lower-cased queries of the log that are not empty
DistinctQueries ==
    {Lower(Strip(logs[i].query)) : i \in DOMAIN logs} \ {T_empty}

\* C9: the ranking has one entry per distinct normalized non-empty query of
\* the log, the ranks are exactly 1..n without gaps or repeats, and count
\* does not increase as rank increases.
C9_DenseRanking ==
    pc = "reported" =>
        /\ {popularity_ranking[i].query : i \in DOMAIN popularity_ranking}
               = DistinctQueries
        /\ Len(popularity_ranking) = Cardinality(DistinctQueries)
        /\ {popularity_ranking[i].rank : i \in DOMAIN popularity_ranking}
               = 1..Cardinality(DistinctQueries)
        /\ \A i, j \in DOMAIN popularity_ranking :
               /\ i # j => popularity_ranking[i].rank # popularity_ranking[j].rank
               /\ popularity_ranking[i].rank < popularity_ranking[j].rank
                      => popularity_ranking[i].count >= popularity_ranking[j].count
        /\ \A i \in DOMAIN popularity_ranking :
               popularity_ranking[i].count =
                   Cardinality({k \in DOMAIN logs :
                       Lower(Strip(logs[k].query)) = popularity_ranking[i].query})

\* two spellings of one query are grouped and ranked before the query that
\* the log returns first; a blank query is left out elsewhere
C9_Witness ==
    /\ pc = "reported"
    /\ Len(logs) = 3
    /\ logs[1].query = Q_Need_1_Pager
    /\ {logs[2].query, logs[3].query} = {Q_FAFSA_checklist, Q_fafsa_checklist_sp}
    /\ Len(popularity_ranking) = 2
    /\ popularity_ranking[1].query = N_fafsa_checklist
    /\ popularity_ranking[1].count = 2
    /\ popularity_ranking[2].rank = 2

\* the places of the log where a term stands as a word or as two words in a row
PlacesOf(term) ==
    {p \in UNION {{<<i, j>> : j \in DOMAIN Split(Lower(Strip(logs[i].query)))} :
                     i \in DOMAIN logs} :
        LET w == Split(Lower(Strip(logs[p[1]].query)))
        IN  \/ w[p[2]] = term
            \/ /\ p[2] < Len(w)
               /\ w[p[2]] \o <<" ">> \o w[p[2] + 1] = term}

\* C10: no mined term equals, whatever the case of the letters, the
\* user_term or the canonical_term of an active mapping, and every mined
\* term occurs at least twice in the log.
C10_MinedTermsUnmapped ==
    pc = "reported" =>
        \A k \in DOMAIN unmapped_terms :
            /\ \A r \in terminology_map :
                   r.is_active =>
                       /\ Lower(r.user_term) # Lower(unmapped_terms[k].term)
                       /\ Lower(r.canonical_term) # Lower(unmapped_terms[k].term)
            /\ unmapped_terms[k].count >= 2
            /\ Cardinality(PlacesOf(unmapped_terms[k].term)) >= 2

\* with the seed active "checklist" is mined from two queries that also hold
\* the mapped word "fafsa", which is not mined
C10_Witness ==
    /\ pc = "reported"
    /\ \E r \in terminology_map : r.is_active /\ r.user_term = T_fafsa
    /\ \E k \in DOMAIN unmapped_terms : unmapped_terms[k].term = T_checklist
    /\ \A k \in DOMAIN unmapped_terms : unmapped_terms[k].term # T_fafsa
    /\ Cardinality(PlacesOf(T_fafsa)) >= 2

-----------------------------------------------------------------------------
(* Claims about dry runs and about the value the suggestion insert         *)
(* returns, under Spec.                                                    *)

\* an add_terminology fix with both of its terms
Applicable(fix) ==
    /\ fix.fix_type = "add_terminology"
    /\ ~Falsy(fix.user_term)
    /\ ~Falsy(fix.standard_term)

\* the step is the auto-fix step of a --dry-run run
DryAutoFix ==
    /\ auto_fix = NoResult
    /\ auto_fix' # NoResult
    /\ last_insert'.op = "auto_fix"
    /\ last_insert'.dry_run

\* the diagnoses the step's result can come from
DiagnosesOfStep ==
    {diagnosis \in Diagnoses :
        auto_fix' = step_auto_fix(terminology_map, diagnosis, TRUE).result}

\* the step is the end of a --dry-run run of the analyzer
DryAnalyzerEnd ==
    /\ last_insert'.op = "analyzer"
    /\ last_insert'.dry_run
    /\ \E batch \in SeqsUpTo(SuggestionPool, 0, MaxBatch) :
           AnalyzerEnd(batch, TRUE)

\* C19: a dry-run auto-fix step and the dry-run end of an analyzer run leave
\* the terminology store as it is and add no row to the report table, and
\* the dry-run auto-fix lists every add_terminology fix of the diagnosis that
\* has both terms, marked as a dry run.
C19_DryRunWritesNothing ==
    [][/\ DryAutoFix =>
              /\ terminology_map' = terminology_map
              /\ DiagnosesOfStep # {}
              /\ \A diagnosis \in DiagnosesOfStep :
                     "recommended_fixes" \in DOMAIN diagnosis =>
                         \A i \in DOMAIN diagnosis.recommended_fixes :
                             Applicable(diagnosis.recommended_fixes[i]) =>
                                 \E j \in DOMAIN auto_fix'.fixes_applied :
                                     /\ auto_fix'.fixes_applied[j].user_term
                                            = diagnosis.recommended_fixes[i].user_term
                                     /\ auto_fix'.fixes_applied[j].canonical_term
                                            = diagnosis.recommended_fixes[i].standard_term
                                     /\ auto_fix'.fixes_applied[j].how = "dry_run"
       /\ DryAnalyzerEnd =>
              /\ terminology_map' = terminology_map
              /\ last_insert'.reports = 0
              /\ last_insert'.returned = 0]_vars

\* C19 witness: a dry-run auto-fix has listed the fix checklist -> 1-Pager
\* on a store that holds the seed, and no row of the store comes from it.
C19_Witness ==
    /\ last_insert.op = "auto_fix"
    /\ last_insert.dry_run
    /\ auto_fix.status = "applied"
    /\ auto_fix.total_applied >= 1
    /\ auto_fix.fixes_applied[1].user_term = T_checklist
    /\ auto_fix.fixes_applied[1].how = "dry_run"
    /\ terminology_map # {}
    /\ \A r \in terminology_map : r.source # "auto_diagnose"

\* the rows the step added to the store
RowsAdded == Cardinality(terminology_map') - Cardinality(terminology_map)

\* C20 (as claimed): the value a suggestion insert returns is the number of
\* rows the call added to the store.
C20_ReturnsRowsAdded ==
    [][(/\ last_insert'.op \in {"analyzer", "log_analyzer"}
        /\ (AnalyzerInsert \/ LogAnalyzerInsert))
           => last_insert'.returned = RowsAdded]_vars

-----------------------------------------------------------------------------
(* Claims about the clusters and the competitor figures.                   *)

\* the positions of the log entries whose lower-cased query contains kw
Mentioning(kw) ==
    {i \in DOMAIN logs : Contains(kw, LowerOrEmpty(logs[i].query))}

\* the positions of the log entries that mention no keyword of any
\* dictionary and have no detected state
Unclustered ==
    {i \in DOMAIN logs :
        /\ \A keywords \in {COMPETITOR_KEYWORDS, CONTENT_TYPE_KEYWORDS,
                            FEATURE_KEYWORDS, PERSONA_KEYWORDS, TOPIC_KEYWORDS} :
               \A k \in DOMAIN keywords :
                   ~Contains(keywords[k], LowerOrEmpty(logs[i].query))
        /\ logs[i].detected_states = <<>>}

\* C16: for every name k of the competitor dictionary the competitor
\* cluster counts under k the log entries whose lower-cased query contains
\* k (no key when there is none), and the uncategorized bucket holds
\* exactly the entries that match no keyword and have no detected state.
C16_ClustersCountMentions ==
    query_clusters # NoResult =>
        /\ \A k \in DOMAIN COMPETITOR_KEYWORDS :
               LET kw == COMPETITOR_KEYWORDS[k]
                   breakdown == query_clusters.competitor.breakdown
               IN  IF Mentioning(kw) = {} THEN kw \notin DOMAIN breakdown
                   ELSE /\ kw \in DOMAIN breakdown
                        /\ breakdown[kw] = Cardinality(Mentioning(kw))
        /\ query_clusters.uncategorized.count = Cardinality(Unclustered)
        /\ query_clusters.uncategorized.queries
               = {LowerOrEmpty(logs[i].query) : i \in Unclustered}

C16_Witness ==
    /\ query_clusters # NoResult
    /\ Len(logs) = 3
    /\ logs[1].query = Q_Naviance_comparison
    /\ logs[2].query = Q_hello /\ logs[2].detected_states = <<>>
    /\ logs[3].query = Q_naviance_vs_xello
    /\ query_clusters.competitor.breakdown[T_naviance] = 2
    /\ query_clusters.competitor.count = 3
    /\ query_clusters.uncategorized.count = 1

\* C17: total_competitor_queries is the number of log entries whose query
\* mentions a competitor of the dictionary, each entry counted once, and is
\* the competitor_queries figure of the metrics.
C17_TotalCountsEntriesOnce ==
    (competitor_intelligence # NoResult /\ metrics # NoResult) =>
        /\ competitor_intelligence.total_competitor_queries
               = Cardinality(UNION {Mentioning(COMPETITOR_KEYWORDS[k]) :
                                       k \in DOMAIN COMPETITOR_KEYWORDS})
        /\ competitor_intelligence.total_competitor_queries
               = metrics.competitor_queries

-----------------------------------------------------------------------------
(* Claims about the health monitor.                                        *)

\* C18: the overall verdict of a health report is critical exactly when a
\* check is fail, degraded exactly when no check is fail and one is warn,
\* and healthy otherwise.
C18_VerdictIsWorstStatus ==
    health_report.status = "reported" =>
        LET failed == \E i \in DOMAIN health_report.steps :
                          health_report.steps[i] = "fail"
            warned == \E i \in DOMAIN health_report.steps :
                          health_report.steps[i] = "warn"
        IN  /\ health_report.overall_status = "critical" <=> failed
            /\ health_report.overall_status = "degraded" <=> (~failed /\ warned)
            /\ health_report.overall_status = "healthy" <=> (~failed /\ ~warned)

C18_Witness ==
    /\ health_report.status = "reported"
    /\ health_report.steps[1] = "warn"
    /\ health_report.steps[2] = "fail"
    /\ health_report.steps[5] = "skipped"
    /\ health_report.overall_status = "critical"
    /\ health_report.exit_code = 1

\* C30: when the anomaly pass fails (the call raises or its reply cannot be
\* parsed), the overall verdict of the report is the verdict of the four
\* rule-based checks alone, as it is when the pass is skipped.
C30_FailedPassKeepsVerdict ==
    \A pass \in AnomalyPassFailures :
        /\ health_report.status = "reported"
        /\ health_report.steps[5] = step_ai_anomaly_detection(pass)
        => health_report.overall_status
               = Overall([health_report.steps EXCEPT ![5] = "skipped"])

-----------------------------------------------------------------------------
(* Claims about the maintenance orchestrator.                              *)

\* the step results of a run, in the order they were recorded
StepEntries(results) == SelectSeq(results, LAMBDA e : e.type = "dict")

\* where a step stands in the mode's list
PositionIn(mode, step_name) ==
    CHOOSE i \in DOMAIN MAINTENANCE_STEPS[mode] :
        MAINTENANCE_STEPS[mode][i] = step_name

\* the mode's steps that --skip leaves
Remaining(mode, skip_list) == Range(MAINTENANCE_STEPS[mode]) \ skip_list

\* the names of the steps a run has executed
Executed(results) ==
    {StepEntries(results)[i].key : i \in DOMAIN StepEntries(results)}

\* C11: for any mode and skip-list the executed steps are steps of the mode
\* that are not skipped, each once and in the mode's order (so that
\* health_check_pre, when not skipped, is first), always a prefix of the
\* remaining list; when the run ends without a halt they are exactly the
\* remaining steps, and no skipped name is in the results.
C11_SkipFilteredInOrder ==
    orch # NoRun =>
        LET executed == StepEntries(orch.results)
            remaining == Remaining(orch.mode, orch.skip_list)
        IN  /\ \A i \in DOMAIN orch.results :
                   orch.results[i].key \notin orch.skip_list
            /\ \A i \in DOMAIN executed : executed[i].key \in remaining
            /\ \A i, j \in DOMAIN executed :
                   i < j => PositionIn(orch.mode, executed[i].key)
                                < PositionIn(orch.mode, executed[j].key)
            /\ \A done \in Executed(orch.results) :
                   \A todo \in remaining \ Executed(orch.results) :
                       PositionIn(orch.mode, done) < PositionIn(orch.mode, todo)
            /\ (orch.phase # "running" /\ StoppedAt(orch.results) = "None")
                   => Executed(orch.results) = remaining

C11_Witness ==
    /\ orch # NoRun
    /\ orch.phase = "reported"
    /\ orch.mode = "daily"
    /\ orch.skip_list = {"health_check_pre", "tag_hygiene"}
    /\ Len(orch.report.results) = 3
    /\ orch.report.results[1].key = "log_analysis"
    /\ orch.report.results[2].key = "enrichment"
    /\ orch.report.results[3].key = "health_check_post"

\* C12: when health_check_pre returns critical and --stop-on-error was
\* given, health_check_pre is the only step executed, the loop is over and
\* stopped_at is health_check_pre.
C12_CriticalGateHalts ==
    (/\ orch # NoRun
     /\ orch.stop_on_error
     /\ \E i \in DOMAIN orch.results :
            /\ orch.results[i].key = "health_check_pre"
            /\ orch.results[i].value.critical)
        => /\ orch.phase # "running"
           /\ Executed(orch.results) = {"health_check_pre"}
           /\ StoppedAt(orch.results) = "health_check_pre"

C12_Witness ==
    /\ orch # NoRun
    /\ orch.stop_on_error
    /\ orch.phase # "running"
    /\ Len(orch.steps_to_run) >= 2
    /\ orch.steps_to_run[2] = "log_analysis"
    /\ orch.results # <<>>
    /\ orch.results[1].key = "health_check_pre"
    /\ orch.results[1].value.critical
    /\ orch.results[1].value.health_status = "critical"

C14_FailureHalts ==
    (orch # NoRun /\ orch.stop_on_error)
        => \A i \in DOMAIN StepEntries(orch.results) :
               (/\ StepEntries(orch.results)[i].key # "health_check_pre"
                /\ ~StepEntries(orch.results)[i].value.success)
                   => /\ i = Len(StepEntries(orch.results))
                      /\ orch.phase # "running"
                      /\ StoppedAt(orch.results)
                             = StepEntries(orch.results)[i].key

\* C15: a run that halted ends with its report: one entry per executed step
\* and nothing else in the results, stopped_at the halting step.
C15_HaltedRunReports ==
    (/\ orch # NoRun
     /\ orch.phase \in {"reported", "crashed"}
     /\ StoppedAt(orch.results) # "None")
        => /\ orch.phase = "reported"
           /\ Len(orch.report.results) = orch.step_num
           /\ \A i \in DOMAIN orch.report.results :
                  orch.report.results[i].type = "dict"
           /\ orch.report.stopped_at
                  = orch.steps_to_run[orch.step_num]

-----------------------------------------------------------------------------
(* Claims about a whole run of the resolver, under Spec.                   *)

\* the diagnosis is marked as skipped or as an error
MarkedFailed(diagnosis) ==
    \/ "error" \in DOMAIN diagnosis
    \/ "status" \in DOMAIN diagnosis /\ diagnosis.status = "skipped"

\* C21: when the completion service has no key, raises or replies with text
\* that is no JSON, the run that traced the query still returns its result,
\* the diagnosis in it is marked skipped or error, and the auto-fix step
\* applies nothing and leaves the terminology store as it is.
C21_LlmFailureStillReturns ==
    [][\A reply \in LlmFailures, with_auto_fix \in BOOLEAN,
          dry_run \in BOOLEAN :
           DiagnoseEnd(reply, with_auto_fix, dry_run) =>
               /\ terminology_map' = terminology_map
               /\ all_results'.status = "returned"
               /\ MarkedFailed(all_results'.diagnosis)
               /\ all_results'.auto_fix.status = "skipped"]_vars

\* the recommended fixes of the diagnosis for a reply, none without the list
FixesOf(reply) ==
    IF "recommended_fixes" \in DOMAIN step_ai_diagnosis(reply)
    THEN step_ai_diagnosis(reply).recommended_fixes
    ELSE <<>>

\* C25: a run that is no dry run changes the terminology store only with
\* --auto-fix; then every add_terminology fix with both of its terms has a
\* row under its user term in the store, every other fix is listed as
\* skipped, and every row added comes from a fix of the first kind.
C25_AutoFixInsertsApplicable ==
    [][\A reply \in LlmReplies, with_auto_fix \in BOOLEAN :
           DiagnoseEnd(reply, with_auto_fix, FALSE) =>
               /\ ~with_auto_fix => terminology_map' = terminology_map
               /\ with_auto_fix =>
                      \A i \in DOMAIN FixesOf(reply) :
                          IF Applicable(FixesOf(reply)[i])
                          THEN \E row \in terminology_map' :
                                   row.user_term = FixesOf(reply)[i].user_term
                          ELSE \E j \in DOMAIN auto_fix'.fixes_skipped :
                                   auto_fix'.fixes_skipped[j].fix
                                       = FixesOf(reply)[i]
               /\ \A row \in terminology_map' \ terminology_map :
                      \E i \in DOMAIN FixesOf(reply) :
                          /\ Applicable(FixesOf(reply)[i])
                          /\ row.user_term = FixesOf(reply)[i].user_term]_vars

-----------------------------------------------------------------------------
(* Claims about what the jobs leave alone in the terminology store.        *)

\* the columns that recording a use may change
UsageColumns == {"usage_count", "last_used_at"}

-----------------------------------------------------------------------------
(* Claims about the scan for missed content, under SpecMissed.             *)

\* C26: no item the scan for missed content lists or counts on is among the
\* rows the live search returned for the query (at most 20), and the scan
\* reports at most 10 items.
C26_MissedOutsideLiveResults ==
    all_results.status = "step 4" =>
        /\ all_results.missed_content.missed_content
               \cap Range(LiveResults(marketing_content)) = {}
        /\ all_results.missed_content.missed_count <= MissedLimit
        /\ Cardinality(all_results.missed_content.missed_content)
               <= MissedLimit

-----------------------------------------------------------------------------
(* Claims about an analyzer run without the completion service, under      *)
(* SpecSummary.                                                            *)

\* the run has no client
Disabled == ~get_openai_client(completion_service)

\* the calls of the run that raise or reply with text that is no JSON
FailedCalls ==
    IF Disabled THEN {}
    ELSE {c \in {"recommendations", "suggestions"} :
             completion_service[c].kind # "json"}
         \cup {c \in {"summary"} : completion_service[c].kind # "text"}

\* the mined terms of the log, without the service
MinedTerms ==
    generate_terminology_suggestions(logs,
        fetch_terminology_mappings(terminology_map))

NoRecommendations == ai_report.ai_content_recommendations = <<>>

NoAiSuggestions == ai_report.terminology_suggestions.ai_suggestions = <<>>

SummaryIsBasic == ai_report.executive_summary = BasicSummary(ReportData(logs))

\* C22 as stated: when the run has no client or any of its calls fails, the
\* report has no AI content recommendations and no AI terminology
\* suggestions, its mined terms are those of the log and its executive
\* summary is the basic one.
C22_AnyFailureAllFallBack ==
    ai_report # NoResult /\ (Disabled \/ FailedCalls # {}) =>
        /\ NoRecommendations
        /\ NoAiSuggestions
        /\ ai_report.terminology_suggestions.unmapped_terms = MinedTerms
        /\ SummaryIsBasic

\* C22: every run reports the mined terms of the log; without a client the
\* report has no AI content recommendations, no AI terminology suggestions
\* and the basic executive summary; with a client each section whose call
\* fails falls back on its own (no recommendations, no suggestions, the
\* basic summary).
C22_FailedSectionFallsBack ==
    ai_report # NoResult =>
        /\ ai_report.terminology_suggestions.unmapped_terms = MinedTerms
        /\ Disabled =>
               NoRecommendations /\ NoAiSuggestions /\ SummaryIsBasic
        /\ "recommendations" \in FailedCalls => NoRecommendations
        /\ "suggestions" \in FailedCalls => NoAiSuggestions
        /\ "summary" \in FailedCalls => SummaryIsBasic

\* C22 witness: with a client, the call for terminology suggestions and the
\* call for the summary have failed over a log with mined terms and a high
\* gap: no AI suggestion, the basic summary with its sentence on the gaps,
\* and the recommendations of the call that succeeded.
C22_Witness ==
    /\ ai_report # NoResult
    /\ FailedCalls = {"suggestions", "summary"}
    /\ MinedTerms # <<>>
    /\ NoAiSuggestions
    /\ ai_report.terminology_suggestions.unmapped_terms # <<>>
    /\ \E i \in DOMAIN ai_report.executive_summary :
           ai_report.executive_summary[i].sentence
               = "HIGH priority content gaps"
    /\ ai_report.ai_content_recommendations # <<>>




-----------------------------------------------------------------------------
(* Claims about a maintenance run in any environment, under                *)
(* SpecMaintenance.                                                        *)

\* the run got past main's test of DATABASE_URL
Started == orch # NoRun /\ orch.phase # "aborted"

\* OPENAI_API_KEY is not set and a step of the run starts a script that
\* needs it
MissingForAStep ==
    /\ ~orch.openai_api_key
    /\ \E i \in DOMAIN orch.steps_to_run : orch.steps_to_run[i] \in NeedsOpenAI

\* C23: a maintenance run started without a credential that one of its
\* steps needs executes no step (so it neither reads nor writes the store)
C23_MissingCredentialNoStep ==
    (Started /\ MissingForAStep) => orch.results = <<>>

\* C28: no step of a maintenance run started with --dry-run inserts a
\* terminology suggestion or saves an analysis report
C28_DryRunWritesNothing ==
    [][(orch # NoRun /\ orch.phase # "aborted" /\ orch.dry_run)
           => UNCHANGED <<terminology_map, last_insert>>]_vars

\* C29: the delta health_check_post reports is the difference between the
\* files the two health checks of this run wrote; no delta is computed when
\* one of the files is an earlier run's
C29_DeltaOfThisRunOnly ==
    Started =>
        \A i \in DOMAIN orch.results :
            orch.results[i].key = "health_check_post"
                => orch.results[i].value.delta
                       = DeltaOfThisRun(health_pre, health_post)

-----------------------------------------------------------------------------
(* Claims about the parallel enrichment, under SpecEnrich.                 *)

\* the number of commits of the run that cover the record
CommitsOf(id) ==
    BagCardinality([covered \in {c \in BagToSet(enrich.committed) : id \in c}
                       |-> enrich.committed[covered]])

=============================================================================
